---- MODULE Spec2Model ----
(***************************************************************************)
(* A state-machine model of the orchestration core of the startup          *)
(* analysis server: the Temporal workflows (src/src/temporal/workflows.ts, *)
(* with the activities of src/src/temporal/activities.ts they call) and    *)
(* the rate-limited queue (src/src/services/rate-limiter.ts).              *)
(***************************************************************************)
EXTENDS Integers, Sequences, FiniteSets, TLC

VARIABLES
    mode,            \* which workflow was started: "analysis" | "monitoring" | "none"
    founders,        \* input.founders, as the sequence of the founders' names
    competitors,     \* input.competitors
    pc,              \* position of the workflow function
    task,            \* state of every named activity invocation
    ftask,           \* state of the per-founder activity invocations
    dataSources,     \* results.dataSources[key]
    founderSlots,    \* results.dataSources.founders[name]
    sentimentAnalysis, \* results.sentimentAnalysis
    writes,          \* number of assignments made to each result slot in this run
    summary,         \* the summary returned with the result
    storeLog,        \* outcome of the persistence call of this run
    interval,        \* monitoring input: interval string
    duration,        \* monitoring input: duration string
    intervalMs,
    endTime,
    now,             \* workflow time in ms, saturating at endTime
    runs             \* analysis runs started by the monitoring loop

VARIABLES
    options,         \* RateLimiter.options
    queue,           \* RateLimiter.queue, as the sequence of the queued items' ids
    processing,      \* RateLimiter.processing
    loop,            \* where the process() loop is suspended
    loopTimer,       \* ms left of the delay() the loop awaits
    requestCounts,   \* RateLimiter.requestCounts
    items,           \* every operation handed to execute(): promise state, retries, ...
    backoffTimer,    \* ms left of the setTimeout that re-queues a throttled item
    secTimer,        \* ms left until the per-second reset interval fires
    sinceStart       \* ms since the three latest first invocations of an operation,
                     \* the latest first, each saturating at two seconds

wfVars == <<mode, founders, competitors, pc, task, ftask, dataSources, founderSlots,
            sentimentAnalysis, writes, summary, storeLog,
            interval, duration, intervalMs, endTime, now, runs>>

rlVars == <<options, queue, processing, loop, loopTimer, requestCounts, items,
            backoffTimer, secTimer, sinceStart>>

VARIABLES
    modelList,       \* ModelRotator.modelList
    models,          \* ModelRotator.models: the ModelStats of every model
    currentIndex,    \* ModelRotator.currentIndex
    failStreak,      \* per model: failures recorded in a row, counted up to three
    quarantined,     \* per model: a third failure in a row left it unavailable and
                     \* it has not been marked available since
    tickSeen,        \* per model: the decay interval fired since its last request,
                     \* or that request is longer ago than the cooldown
    lastCall,        \* the latest step when it was a getNextModel (the model it
                     \* returned, and whether by the fallback) or a recordRequest
                     \* of a failure (the model)
    lastReturned     \* the model the latest getNextModel returned

VARIABLES
    defaultTTL,      \* SimpleCache.defaultTTL, in ms
    cache,           \* SimpleCache.cache: key -> CacheItem
    sinceSet,        \* per key: the ttl of its latest set and the ms passed since
    got              \* the latest get: its key and what it returned

VARIABLES
    call,            \* the analyzeBatchSmart call in progress
    batchLog,        \* the latest analyzeBatchSmart call that returned, the time
                     \* since, and the number of calls so far
    sizeCall,        \* the latest getOptimalBatchSize call: the lengths of its
                     \* texts and what the two variants return
    analysis         \* the analyzeSentiment call: its texts, its place in the
                     \* batch loop, its results array and what it returned

rotVars == <<modelList, models, currentIndex, failStreak, quarantined, tickSeen, lastCall,
             lastReturned>>

cacheVars == <<defaultTTL, cache, sinceSet, got>>

batchVars == <<call, batchLog, sizeCall, analysis>>

svcVars == <<rotVars, cacheVars, batchVars>>

vars == <<wfVars, rlVars, svcVars>>

-----------------------------------------------------------------------------
(* Bounds of the model *)

\* analysis runs after which the monitoring loop is no longer followed
MaxRuns == 3

(* Program constants *)

\* await sleep('2s') between the phases, sleep('1s') before phases 3 and 4
PhasePauseMs == 2000
ShortPauseMs == 1000

-----------------------------------------------------------------------------
(* Activities *)

SocialTasks == {"twitter", "reddit", "bluesky", "youtube", "tiktok", "instagram"}
WebTasks == {"webGeneral", "linkedin", "news", "techCommunity"}
StepTasks == {"competitiveAnalysis", "sentimentAnalysis", "save", "summary"}
TaskIds == SocialTasks \cup WebTasks \cup StepTasks

\* keys of results.dataSources other than founders
SourceKeys == SocialTasks \cup WebTasks \cup {"competitiveAnalysis"}

\* input.founders by name (two founders may bear one name) and input.competitors
FounderNames == {"ann", "bob"}
FounderLists == {<<>>, <<"ann">>, <<"ann", "bob">>, <<"ann", "ann">>}
CompetitorLists == {<<>>, <<"rival">>}

\* An activity invocation as the workflow sees it. The retries of the proxy's retry
\* policy are made by the Temporal server: the promise settles once, with the value
\* an attempt returned ("ok") or with the failure left when attempts ran out ("err").
Settled(st) == st \in {"ok", "err"}
TaskOutcomes == {"ok", "err"}

\* a slot value: nothing, the string an activity returned, or `Error: ${e.message}`
\* (of and idx name the activity invocation whose outcome the string carries)
Absent == [kind |-> "absent", of |-> "none", idx |-> 0]
Payload(src) == [kind |-> "payload", of |-> src, idx |-> 0]
ErrorString(src) == [kind |-> "Error:", of |-> src, idx |-> 0]

StartsWithError(v) == v.kind = "Error:"


-----------------------------------------------------------------------------
(* startupAnalysisWorkflow *)

Min(a, b) == IF a < b THEN a ELSE b

\* Date.now() after a sleep of ms; time past endTime is not told apart
After(ms) == IF mode = "monitoring" THEN Min(now + ms, endTime) ELSE now

\* .then(r => slot = r) and .catch(e => slot = `Error: ${e.message}`) of a connector
ConnectorSlotNoPrefix(o, src) ==
    IF o = "ok" THEN Payload(src) ELSE [kind |-> "message", of |-> src, idx |-> 0]

ConnectorSlot(o, src) ==
    IF o = "ok" THEN Payload(src) ELSE ErrorString(src)

NoSummary == [present |-> FALSE, successful |-> {}, sentimentShown |-> FALSE]

\* generateSummary: the sources counted as successful and the sentiment section
generateSummary(ds, sentiment) ==
    [present |-> TRUE,
     successful |-> {k \in SourceKeys : ds[k].kind # "absent" /\ ~StartsWithError(ds[k])},
     sentimentShown |-> (sentiment.kind # "absent" /\ ~StartsWithError(sentiment))]

\* The synchronous start of a run: a fresh results object, then the six social
\* media activities are scheduled before the first await.
StartRun ==
    /\ dataSources' = [k \in SourceKeys |-> Absent]
    /\ founderSlots' = [n \in FounderNames |-> Absent]
    /\ sentimentAnalysis' = Absent
    /\ writes' = [k \in SourceKeys \cup FounderNames \cup {"sentimentAnalysis"} |-> 0]
    /\ summary' = NoSummary
    /\ storeLog' = "none"
    /\ task' = [t \in TaskIds |-> IF t \in SocialTasks THEN "running" ELSE "idle"]
    /\ ftask' = [i \in 1..Len(founders) |-> "idle"]
    /\ runs' = runs + 1
    /\ pc' = "phase1"

StartAnalysis ==
    /\ mode = "analysis"
    /\ pc = "start"
    /\ StartRun
    /\ UNCHANGED <<mode, founders, competitors, interval, duration, intervalMs, endTime, now>>
    /\ UNCHANGED <<rlVars, svcVars>>

\* A phase 1 or phase 2 connector activity settles and its .then or .catch handler
\* writes the slot.
SettleConnector(t) ==
    /\ \/ pc = "phase1" /\ t \in SocialTasks
       \/ pc = "phase2" /\ t \in WebTasks
    /\ task[t] = "running"
    /\ \E o \in TaskOutcomes :
        /\ task' = [task EXCEPT ![t] = o]
        /\ dataSources' = [dataSources EXCEPT ![t] = ConnectorSlot(o, t)]
        /\ writes' = [writes EXCEPT ![t] = @ + 1]
    /\ UNCHANGED <<mode, founders, competitors, pc, ftask, founderSlots, sentimentAnalysis,
                   summary, storeLog, interval, duration, intervalMs, endTime, now, runs>>
    /\ UNCHANGED <<rlVars, svcVars>>

\* (a join that returns as soon as one of the promises has settled)
JoinPhase1Early ==
    /\ pc = "phase1"
    /\ \E t \in SocialTasks : Settled(task[t])
    /\ pc' = "sleep1"
    /\ UNCHANGED <<mode, founders, competitors, task, ftask, dataSources, founderSlots,
                   sentimentAnalysis, writes, summary, storeLog,
                   interval, duration, intervalMs, endTime, now, runs>>
    /\ UNCHANGED <<rlVars, svcVars>>

\* await Promise.all(socialMediaPromises) returns; await sleep('2s') begins
JoinPhase1 ==
    /\ pc = "phase1"
    /\ \A t \in SocialTasks : Settled(task[t])
    /\ pc' = "sleep1"
    /\ UNCHANGED <<mode, founders, competitors, task, ftask, dataSources, founderSlots,
                   sentimentAnalysis, writes, summary, storeLog,
                   interval, duration, intervalMs, endTime, now, runs>>
    /\ UNCHANGED <<rlVars, svcVars>>

\* the sleep returns; the four web activities are scheduled
StartPhase2 ==
    /\ pc = "sleep1"
    /\ now' = After(PhasePauseMs)
    /\ task' = [t \in TaskIds |-> IF t \in WebTasks THEN "running" ELSE task[t]]
    /\ pc' = "phase2"
    /\ UNCHANGED <<mode, founders, competitors, ftask, dataSources, founderSlots,
                   sentimentAnalysis, writes, summary, storeLog,
                   interval, duration, intervalMs, endTime, runs>>
    /\ UNCHANGED <<rlVars, svcVars>>

\* where the workflow waits after phase 2 (and after phase 3): the sleep before
\* the founder phase, before the competitive search, or before sentiment analysis
NextPause(afterFounders) ==
    IF ~afterFounders /\ Len(founders) > 0 THEN "sleepFounders"
    ELSE IF Len(competitors) > 0 THEN "sleepCompetitive"
    ELSE "sleepSentiment"

JoinPhase2 ==
    /\ pc = "phase2"
    /\ \A t \in WebTasks : Settled(task[t])
    /\ pc' = NextPause(FALSE)
    /\ UNCHANGED <<mode, founders, competitors, task, ftask, dataSources, founderSlots,
                   sentimentAnalysis, writes, summary, storeLog,
                   interval, duration, intervalMs, endTime, now, runs>>
    /\ UNCHANGED <<rlVars, svcVars>>

\* await sleep('1s') returns; one LinkedIn activity per founder is scheduled
StartFounders ==
    /\ pc = "sleepFounders"
    /\ now' = After(ShortPauseMs)
    /\ ftask' = [i \in 1..Len(founders) |-> "running"]
    /\ pc' = "phase3"
    /\ UNCHANGED <<mode, founders, competitors, task, dataSources, founderSlots,
                   sentimentAnalysis, writes, summary, storeLog,
                   interval, duration, intervalMs, endTime, runs>>
    /\ UNCHANGED <<rlVars, svcVars>>

\* The activity of the i-th founder settles and its handler writes
\* results.dataSources.founders[founder.name].
SettleFounder(i) ==
    /\ pc = "phase3"
    /\ i \in 1..Len(founders)
    /\ ftask[i] = "running"
    /\ \E o \in TaskOutcomes :
        /\ ftask' = [ftask EXCEPT ![i] = o]
        /\ founderSlots' = [founderSlots EXCEPT
                              ![founders[i]] = [ConnectorSlot(o, "founder") EXCEPT !.idx = i]]
        /\ writes' = [writes EXCEPT ![founders[i]] = @ + 1]
    /\ UNCHANGED <<mode, founders, competitors, pc, task, dataSources, sentimentAnalysis,
                   summary, storeLog, interval, duration, intervalMs, endTime, now, runs>>
    /\ UNCHANGED <<rlVars, svcVars>>

JoinFounders ==
    /\ pc = "phase3"
    /\ \A i \in 1..Len(founders) : Settled(ftask[i])
    /\ pc' = NextPause(TRUE)
    /\ UNCHANGED <<mode, founders, competitors, task, ftask, dataSources, founderSlots,
                   sentimentAnalysis, writes, summary, storeLog,
                   interval, duration, intervalMs, endTime, now, runs>>
    /\ UNCHANGED <<rlVars, svcVars>>

\* await sleep('1s') returns; the comparison search is started
StartCompetitive ==
    /\ pc = "sleepCompetitive"
    /\ now' = After(ShortPauseMs)
    /\ task' = [task EXCEPT !["competitiveAnalysis"] = "running"]
    /\ pc' = "phase4"
    /\ UNCHANGED <<mode, founders, competitors, ftask, dataSources, founderSlots,
                   sentimentAnalysis, writes, summary, storeLog,
                   interval, duration, intervalMs, endTime, runs>>
    /\ UNCHANGED <<rlVars, svcVars>>

\* fetchWebData(...).catch(e => `Error: ...`) settles and the slot is assigned;
\* await sleep('2s') begins
SettleCompetitive ==
    /\ pc = "phase4"
    /\ task["competitiveAnalysis"] = "running"
    /\ \E o \in TaskOutcomes :
        /\ task' = [task EXCEPT !["competitiveAnalysis"] = o]
        /\ dataSources' = [dataSources EXCEPT
               !["competitiveAnalysis"] = ConnectorSlot(o, "competitiveAnalysis")]
        /\ writes' = [writes EXCEPT !["competitiveAnalysis"] = @ + 1]
    /\ pc' = "sleepSentiment"
    /\ UNCHANGED <<mode, founders, competitors, ftask, founderSlots, sentimentAnalysis,
                   summary, storeLog, interval, duration, intervalMs, endTime, now, runs>>
    /\ UNCHANGED <<rlVars, svcVars>>

\* await sleep('2s') returns; analyzeSentiment is called inside try
StartSentiment ==
    /\ pc = "sleepSentiment"
    /\ now' = After(PhasePauseMs)
    /\ task' = [task EXCEPT !["sentimentAnalysis"] = "running"]
    /\ pc' = "phase5"
    /\ UNCHANGED <<mode, founders, competitors, ftask, dataSources, founderSlots,
                   sentimentAnalysis, writes, summary, storeLog,
                   interval, duration, intervalMs, endTime, runs>>
    /\ UNCHANGED <<rlVars, svcVars>>

\* the catch block of phase 5 missing: the rejection leaves the workflow function
SentimentUncaught(o) == o = "err"

\* try { ... } catch (error) { results.sentimentAnalysis = `Error: ...` }:
\* whether a terminal failure of analyzeSentiment leaves the workflow function
SentimentThrows(o) == FALSE

\* analyzeSentiment settles, the slot is assigned and saveToDatabase is called
SettleSentiment ==
    /\ pc = "phase5"
    /\ task["sentimentAnalysis"] = "running"
    /\ \E o \in TaskOutcomes :
        IF SentimentThrows(o)
        THEN /\ task' = [task EXCEPT !["sentimentAnalysis"] = o]
             /\ pc' = "failed"
             /\ UNCHANGED <<sentimentAnalysis, writes>>
        ELSE /\ task' = [task EXCEPT !["sentimentAnalysis"] = o, !["save"] = "running"]
             /\ sentimentAnalysis' = ConnectorSlot(o, "sentimentAnalysis")
             /\ writes' = [writes EXCEPT !["sentimentAnalysis"] = @ + 1]
             /\ pc' = "phase6"
    /\ UNCHANGED <<mode, founders, competitors, ftask, dataSources, founderSlots,
                   summary, storeLog, interval, duration, intervalMs, endTime, now, runs>>
    /\ UNCHANGED <<rlVars, svcVars>>

\* what the document store does with the insert
StoreOutcomes == {"stored", "unavailable"}

\* a saveToMongoDB whose catch block rethrows
saveToMongoDBRethrows(s) == s = "unavailable"

\* saveToMongoDB: whether the call throws; the catch block logs and returns
saveToMongoDBThrows(s) == FALSE

\* saveToDatabase: whether an attempt of the activity throws; its catch block
\* rethrows whatever saveToMongoDB threw
saveToDatabaseThrows(s) == saveToMongoDBThrows(s)

\* saveToDatabase settles. The workflow awaits it outside any try: a failure of
\* the activity fails the workflow; otherwise generateSummary is called.
SettleSave ==
    /\ pc = "phase6"
    /\ task["save"] = "running"
    /\ \E s \in StoreOutcomes :
        IF saveToDatabaseThrows(s)
        THEN /\ task' = [task EXCEPT !["save"] = "err"]
             /\ storeLog' = "thrown"
             /\ pc' = "failed"
        ELSE /\ task' = [task EXCEPT !["save"] = "ok", !["summary"] = "running"]
             /\ storeLog' = IF s = "stored" THEN "stored" ELSE "logged"
             /\ pc' = "phase7"
    /\ UNCHANGED <<mode, founders, competitors, ftask, dataSources, founderSlots,
                   sentimentAnalysis, writes, summary,
                   interval, duration, intervalMs, endTime, now, runs>>
    /\ UNCHANGED <<rlVars, svcVars>>

\* generateSummary returns and the workflow returns {...results, summary}; the
\* monitoring loop then awaits sleep(intervalMs)
SettleSummary ==
    /\ pc = "phase7"
    /\ task["summary"] = "running"
    /\ task' = [task EXCEPT !["summary"] = "ok"]
    /\ summary' = generateSummary(dataSources, sentimentAnalysis)
    /\ pc' = IF mode = "monitoring" THEN "monSleep" ELSE "done"
    /\ UNCHANGED <<mode, founders, competitors, ftask, dataSources, founderSlots,
                   sentimentAnalysis, writes, storeLog,
                   interval, duration, intervalMs, endTime, now, runs>>
    /\ UNCHANGED <<rlVars, svcVars>>

\* cancelWorkflow(workflowId): handle.cancel() on a run that is suspended at an
\* await. The workflow has no CancellationScope of its own, so the root scope
\* is cancelled: the promise of every activity in flight and of a pending
\* sleep rejects with a CancelledFailure, and so does every operation the
\* function begins afterwards, without being scheduled.
Suspended ==
    {"phase1", "sleep1", "phase2", "sleepFounders", "phase3", "sleepCompetitive",
     "phase4", "sleepSentiment", "phase5", "phase6", "phase7", "monSleep"}

\* a catch block that takes the cancellation of analyzeSentiment for a failure
\* and is followed by an activity that is scheduled all the same
AfterCancelSwallowed(at) == IF at = "phase5" THEN "phase6" ELSE "cancelled"

\* Where the workflow function is once the cancellation has reached it at at:
\* the .catch handlers and the catch block of phase 5 take the rejections of
\* the activities, the next sleep or activity call of the function rejects and
\* nothing catches that; the CancelledFailure leaves the function.
AfterCancel(at) == "cancelled"

\* the founders whose activity is in flight and who bear the name n
RunningFounders(n) == {i \in 1..Len(founders) : ftask[i] = "running" /\ founders[i] = n}

Cancel ==
    /\ pc \in Suspended
    /\ pc' = AfterCancel(pc)
    /\ task' = [t \in TaskIds |->
                  IF task[t] = "running" THEN "cancelled"
                  ELSE IF t = "save" /\ pc' = "phase6" THEN "running"
                  ELSE task[t]]
    /\ ftask' = [i \in 1..Len(founders) |->
                   IF ftask[i] = "running" THEN "cancelled" ELSE ftask[i]]
    /\ dataSources' = [k \in SourceKeys |->
                         IF task[k] = "running" THEN ErrorString(k) ELSE dataSources[k]]
    /\ founderSlots' = [n \in FounderNames |->
                          IF RunningFounders(n) # {}
                          THEN [ErrorString("founder") EXCEPT
                                  !.idx = CHOOSE i \in RunningFounders(n) :
                                              \A j \in RunningFounders(n) : j <= i]
                          ELSE founderSlots[n]]
    /\ sentimentAnalysis' = IF task["sentimentAnalysis"] = "running"
                            THEN ErrorString("sentimentAnalysis")
                            ELSE sentimentAnalysis
    /\ writes' = [k \in DOMAIN writes |->
                    IF k \in FounderNames THEN writes[k] + Cardinality(RunningFounders(k))
                    ELSE IF k \in SourceKeys \cup {"sentimentAnalysis"} /\ task[k] = "running"
                    THEN writes[k] + 1
                    ELSE writes[k]]
    /\ UNCHANGED <<mode, founders, competitors, summary, storeLog,
                   interval, duration, intervalMs, endTime, now, runs>>
    /\ UNCHANGED <<rlVars, svcVars>>

\* An activity whose promise was rejected by the cancellation is still being
\* executed by the worker: the activities heartbeat but never look at
\* Context.current().cancelled, so the attempt runs to its return. Nothing of
\* the workflow changes by it.
WorkerFinishes(t) ==
    /\ task[t] = "cancelled"
    /\ task' = [task EXCEPT ![t] = "finished"]
    /\ UNCHANGED <<mode, founders, competitors, pc, ftask, dataSources, founderSlots,
                   sentimentAnalysis, writes, summary, storeLog,
                   interval, duration, intervalMs, endTime, now, runs>>
    /\ UNCHANGED <<rlVars, svcVars>>

-----------------------------------------------------------------------------
(* startupMonitoringWorkflow *)

\* \d and the value parseInt gives each digit
DigitSeq == <<"0", "1", "2", "3", "4", "5", "6", "7", "8", "9">>
Digits == {DigitSeq[i] : i \in 1..Len(DigitSeq)}
DigitValue(c) == (CHOOSE i \in 1..Len(DigitSeq) : DigitSeq[i] = c) - 1

\* const units
Units == {"s", "m", "h", "d"}
UnitMs(c) ==
    CASE c = "s" -> 1000
      [] c = "m" -> 60 * 1000
      [] c = "h" -> 60 * 60 * 1000
      [] c = "d" -> 24 * 60 * 60 * 1000

\* the strings given as interval and duration, character by character
DurationStrings ==
    { <<"1", "s">>, <<"9", "s">>, <<"0", "s">>, <<"1", "0", "s">>,
      <<"4", "5", "x">>, <<>>, <<"s">>, <<"5">>, <<"s", "5">>, <<"1", "s", "s">>,
      <<"x", "1", "s">>, <<"1", " ", "s">> }

RECURSIVE DigitPrefixLen(_)
\* the length of the longest prefix of digits, what the greedy \d+ takes
DigitPrefixLen(str) ==
    IF Len(str) = 0 \/ Head(str) \notin Digits THEN 0
    ELSE 1 + DigitPrefixLen(Tail(str))

\* the pattern without its $ anchor: text may follow the unit
MatchesUnanchored(str) ==
    LET k == DigitPrefixLen(str)
    IN  k >= 1 /\ Len(str) >= k + 1 /\ str[k + 1] \in Units

\* interval.match(/^(\d+)([smhd])$/) is not null
Matches(str) ==
    LET k == DigitPrefixLen(str)
    IN  k >= 1 /\ Len(str) = k + 1 /\ str[k + 1] \in Units

RECURSIVE parseInt(_)
parseInt(ds) ==
    IF Len(ds) = 0 THEN 0
    ELSE 10 * parseInt(SubSeq(ds, 1, Len(ds) - 1)) + DigitValue(ds[Len(ds)])

\* parseInterval of a string that matches: parseInt(value) * units[unit]
parseInterval(str) ==
    LET k == DigitPrefixLen(str)
    IN  parseInt(SubSeq(str, 1, k)) * UnitMs(str[k + 1])

\* the loop entered once more when Date.now() has reached endTime
LoopHeadInclusive(time, end) ==
    IF time <= end
    THEN /\ runs < MaxRuns
         /\ StartRun
    ELSE /\ pc' = "done"
         /\ UNCHANGED <<task, ftask, dataSources, founderSlots, sentimentAnalysis,
                        writes, summary, storeLog, runs>>

\* the head of while (Date.now() < endTime): the next run starts, or the
\* workflow returns
LoopHead(time, end) ==
    IF time < end
    THEN /\ runs < MaxRuns
         /\ StartRun
    ELSE /\ pc' = "done"
         /\ UNCHANGED <<task, ftask, dataSources, founderSlots, sentimentAnalysis,
                        writes, summary, storeLog, runs>>

\* The workflow function runs up to its first await: both strings are parsed
\* (a string that does not match throws), then the loop is entered.
StartMonitoring ==
    /\ mode = "monitoring"
    /\ pc = "start"
    /\ IF Matches(interval) /\ Matches(duration)
       THEN /\ intervalMs' = parseInterval(interval)
            /\ endTime' = now + parseInterval(duration)
            /\ LoopHead(now, endTime')
       ELSE /\ pc' = "configError"
            /\ UNCHANGED <<intervalMs, endTime, task, ftask, dataSources, founderSlots,
                           sentimentAnalysis, writes, summary, storeLog, runs>>
    /\ UNCHANGED <<mode, founders, competitors, interval, duration, now>>
    /\ UNCHANGED <<rlVars, svcVars>>

\* await sleep(intervalMs) returns and the loop condition is evaluated again
WakeMonitoring ==
    /\ pc = "monSleep"
    /\ now' = After(intervalMs)
    /\ LoopHead(now', endTime)
    /\ UNCHANGED <<mode, founders, competitors, interval, duration, intervalMs, endTime>>
    /\ UNCHANGED <<rlVars, svcVars>>

-----------------------------------------------------------------------------
(* RateLimiter *)

\* operations handed to execute() in one behaviour
NumOps == 3
\* the longest step by which time is advanced at once, in ms
TimeStep == 1000

\* the period of the per-second reset and the two pauses of the loop, in ms
SecondPeriod == 1000
SecondPause == 1000
MinutePause == 5000

Ops == 1..NumOps

\* private options = { ... }: the defaults of the class
DefaultOptions ==
    [maxRequestsPerMinute |-> 60, maxRequestsPerSecond |-> 2, maxRetries |-> 3,
     retryDelay |-> 1000, backoffMultiplier |-> 2]

\* the two singletons of the module
bedrockRateLimiter ==
    [maxRequestsPerMinute |-> 30, maxRequestsPerSecond |-> 1, maxRetries |-> 3,
     retryDelay |-> 2000, backoffMultiplier |-> 2]
socialMediaRateLimiter ==
    [DefaultOptions EXCEPT !.maxRequestsPerMinute = 60, !.maxRequestsPerSecond = 2,
                           !.maxRetries = 2, !.retryDelay = 1000]

\* The options the limiters of the model are constructed with: budgets small
\* enough for NumOps operations to exhaust them.
strictLimiter ==
    [DefaultOptions EXCEPT !.maxRequestsPerMinute = 2, !.maxRequestsPerSecond = 1,
                           !.maxRetries = 2]
pairLimiter ==
    [DefaultOptions EXCEPT !.maxRequestsPerMinute = 3, !.maxRequestsPerSecond = 2,
                           !.maxRetries = 1]
LimiterOptions == {strictLimiter, pairLimiter}
\* the limiter the progress of the queue is followed on: both budgets are below
\* NumOps and a throttled operation is retried once
tightLimiter == [strictLimiter EXCEPT !.maxRetries = 1]

\* The errors an operation is seen to throw: message (character by character,
\* <<>> when the error has none) and statusCode (0 when it has none).
ErrorSamples ==
    << [message |-> <<"4","2","9",":"," ","T","o","o"," ","M","a","n","y"," ",
                      "R","e","q","u","e","s","t","s">>,
        statusCode |-> 0],
       [message |-> <<"b","u","s","y">>, statusCode |-> 429],
       [message |-> <<>>, statusCode |-> 500] >>
Errors == 1..Len(ErrorSamples)

UpperCase == <<"A","B","C","D","E","F","G","H","I","J","K","L","M",
               "N","O","P","Q","R","S","T","U","V","W","X","Y","Z">>
LowerCase == <<"a","b","c","d","e","f","g","h","i","j","k","l","m",
               "n","o","p","q","r","s","t","u","v","w","x","y","z">>

toLowerCase(str) ==
    [i \in 1..Len(str) |->
        IF \E k \in 1..26 : UpperCase[k] = str[i]
        THEN LowerCase[CHOOSE k \in 1..26 : UpperCase[k] = str[i]]
        ELSE str[i]]

includes(str, sub) ==
    \E i \in 0..(Len(str) - Len(sub)) : SubSeq(str, i + 1, i + Len(sub)) = sub

RateLimitText == <<"r","a","t","e"," ","l","i","m","i","t">>
TooManyRequestsText == <<"t","o","o"," ","m","a","n","y"," ","r","e","q","u","e","s","t","s">>

isRateLimitError(error) ==
    LET errorMessage == toLowerCase(error.message)
    IN  \/ includes(errorMessage, RateLimitText)
        \/ includes(errorMessage, TooManyRequestsText)
        \/ error.statusCode = 429

\* the samples that are throttling errors: the first by its message ("... Too
\* Many Requests"), the second by its statusCode 429
ThrottlingErrors == {1, 2}
ErrorKind(e) == IF e \in ThrottlingErrors THEN "throttling" ELSE "other"

RECURSIVE Pow(_, _)
Pow(b, e) == IF e = 0 THEN 1 ELSE b * Pow(b, e - 1)

\* the delay with the number of the retry as exponent
BackoffDelayByAttempt(retries) ==
    options.retryDelay * Pow(options.backoffMultiplier, retries)

\* retryDelay * Math.pow(backoffMultiplier, retries - 1), retries already incremented
BackoffDelay(retries) ==
    options.retryDelay * Pow(options.backoffMultiplier, retries - 1)

\* Math.floor(1000 / maxRequestsPerSecond)
SpacingDelay == 1000 \div options.maxRequestsPerSecond

\* a QueueItem: where it is (st), item.retries, and records of its history:
\* the calls of item.fn made so far, whether a call that threw a throttling error
\* or one that threw another error was last answered with a retry, the error
\* its promise was rejected with, whether clearQueue() was called after it was
\* handed in, and the delay of its latest retry
NewItem == [st |-> "new", retries |-> 0, invocations |-> 0, retriedOn |-> "none", err |-> 0,
            old |-> FALSE, delay |-> 0]

\* new RateLimiter(cfg): nothing queued, both reset intervals just armed
Constructed(cfg) ==
    /\ options = cfg
    /\ queue = <<>>
    /\ processing = FALSE
    /\ loop = [at |-> "idle", item |-> 0]
    /\ loopTimer = 0
    /\ requestCounts = [perSecond |-> 0, perMinute |-> 0]
    /\ items = [i \in Ops |-> NewItem]
    /\ backoffTimer = [i \in Ops |-> -1]
    /\ secTimer = SecondPeriod
    /\ sinceStart = <<>>

\* a test that lets one attempt more than the budget start
SecondBudgetSpentLate == requestCounts.perSecond > options.maxRequestsPerSecond

\* if (this.requestCounts.perSecond >= this.options.maxRequestsPerSecond)
SecondBudgetSpent == requestCounts.perSecond >= options.maxRequestsPerSecond

\* if (this.requestCounts.perMinute >= this.options.maxRequestsPerMinute)
MinuteBudgetSpent == requestCounts.perMinute >= options.maxRequestsPerMinute

\* The body of the while loop of process(), from its condition to the next
\* await, on queue q and items its: the loop ends, pauses on an exhausted
\* budget, or takes the head of the queue and invokes it.
RunLoop(q, its) ==
    IF Len(q) = 0
    THEN /\ processing' = FALSE
         /\ loop' = [at |-> "idle", item |-> 0]
         /\ loopTimer' = 0
         /\ queue' = q
         /\ items' = its
         /\ UNCHANGED <<requestCounts, sinceStart>>
    ELSE IF SecondBudgetSpent
    THEN /\ processing' = TRUE
         /\ loop' = [at |-> "delay", item |-> 0]
         /\ loopTimer' = SecondPause
         /\ queue' = q
         /\ items' = its
         /\ UNCHANGED <<requestCounts, sinceStart>>
    ELSE IF MinuteBudgetSpent
    THEN /\ processing' = TRUE
         /\ loop' = [at |-> "delay", item |-> 0]
         /\ loopTimer' = MinutePause
         /\ queue' = q
         /\ items' = its
         /\ UNCHANGED <<requestCounts, sinceStart>>
    ELSE LET i == Head(q)
         IN  /\ processing' = TRUE
             /\ queue' = Tail(q)
             /\ requestCounts' = [perSecond |-> requestCounts.perSecond + 1,
                                  perMinute |-> requestCounts.perMinute + 1]
             /\ items' = [its EXCEPT ![i].st = "inflight", ![i].invocations = @ + 1]
             /\ loop' = [at |-> "inflight", item |-> i]
             /\ loopTimer' = 0
             /\ sinceStart' = IF its[i].invocations = 0
                               THEN SubSeq(<<0>> \o sinceStart, 1, Min(3, Len(sinceStart) + 1))
                               ELSE sinceStart

\* a process() that does not look at this.processing
ProcessUnguarded(q, its) ==
    IF Len(q) = 0
    THEN /\ queue' = q
         /\ items' = its
         /\ UNCHANGED <<processing, loop, loopTimer, requestCounts, sinceStart>>
    ELSE RunLoop(q, its)

\* process(): returns at once when a loop is active or nothing is queued
Process(q, its) ==
    IF processing \/ Len(q) = 0
    THEN /\ queue' = q
         /\ items' = its
         /\ UNCHANGED <<processing, loop, loopTimer, requestCounts, sinceStart>>
    ELSE RunLoop(q, its)

\* execute(fn): the item is pushed and process() is called
Execute(i) ==
    /\ items[i].st = "new"
    /\ Process(Append(queue, i), [items EXCEPT ![i].st = "queued"])
    /\ UNCHANGED <<options, backoffTimer, secTimer>>
    /\ UNCHANGED <<wfVars, svcVars>>

\* await item.fn() returns: the promise is resolved and the loop awaits the
\* spacing delay
FnReturns ==
    /\ loop.at = "inflight"
    /\ items' = [items EXCEPT ![loop.item].st = "resolved"]
    /\ loop' = [at |-> "delay", item |-> 0]
    /\ loopTimer' = SpacingDelay
    /\ UNCHANGED <<options, queue, processing, requestCounts, backoffTimer,
                   secTimer, sinceStart>>
    /\ UNCHANGED <<wfVars, svcVars>>

\* the catch block with a test that lets every throttled item retry again
ShouldRetryUnbounded(error, item) == isRateLimitError(error)

\* the catch block with a test that does not look at the kind of error
ShouldRetryAnyError(error, item) == item.retries < options.maxRetries

\* if (this.isRateLimitError(error) && item.retries < this.options.maxRetries)
ShouldRetry(error, item) ==
    isRateLimitError(error) /\ item.retries < options.maxRetries

\* await item.fn() throws error e: the item is scheduled for a retry or its
\* promise is rejected, and the loop goes on without a pause
FnThrows(e) ==
    /\ loop.at = "inflight"
    /\ LET i == loop.item
       IN  IF ShouldRetry(ErrorSamples[e], items[i])
           THEN /\ backoffTimer' = [backoffTimer EXCEPT
                                      ![i] = BackoffDelay(items[i].retries + 1)]
                /\ RunLoop(queue, [items EXCEPT ![i].st = "backoff",
                                                ![i].retries = @ + 1,
                                                ![i].retriedOn = ErrorKind(e),
                                                ![i].delay =
                                                    BackoffDelay(items[i].retries + 1)])
           ELSE /\ UNCHANGED backoffTimer
                /\ RunLoop(queue, [items EXCEPT ![i].st = "rejected",
                                                ![i].err = e])
    /\ UNCHANGED <<options, secTimer>>
    /\ UNCHANGED <<wfVars, svcVars>>

\* the delay() the loop awaits ends
DelayEnds ==
    /\ loop.at = "delay"
    /\ loopTimer = 0
    /\ RunLoop(queue, items)
    /\ UNCHANGED <<options, backoffTimer, secTimer>>
    /\ UNCHANGED <<wfVars, svcVars>>

\* a timer callback that puts the item back and does not call process()
RequeueOnly(i) ==
    /\ items[i].st = "backoff"
    /\ backoffTimer[i] = 0
    /\ backoffTimer' = [backoffTimer EXCEPT ![i] = -1]
    /\ queue' = <<i>> \o queue
    /\ items' = [items EXCEPT ![i].st = "queued"]
    /\ UNCHANGED <<options, processing, loop, loopTimer, requestCounts, secTimer, sinceStart>>
    /\ UNCHANGED <<wfVars, svcVars>>

\* a timer callback that puts the item back with push(item)
RequeueAtBack(i) ==
    /\ items[i].st = "backoff"
    /\ backoffTimer[i] = 0
    /\ backoffTimer' = [backoffTimer EXCEPT ![i] = -1]
    /\ Process(Append(queue, i), [items EXCEPT ![i].st = "queued"])
    /\ UNCHANGED <<options, secTimer>>
    /\ UNCHANGED <<wfVars, svcVars>>

\* the setTimeout of a throttled item fires: unshift(item), process()
Requeue(i) ==
    /\ items[i].st = "backoff"
    /\ backoffTimer[i] = 0
    /\ backoffTimer' = [backoffTimer EXCEPT ![i] = -1]
    /\ Process(<<i>> \o queue, [items EXCEPT ![i].st = "queued"])
    /\ UNCHANGED <<options, secTimer>>
    /\ UNCHANGED <<wfVars, svcVars>>

\* setInterval(() => { this.requestCounts.perSecond = 0 }, 1000)
ResetSecond ==
    /\ secTimer = 0
    /\ requestCounts' = [requestCounts EXCEPT !.perSecond = 0]
    /\ secTimer' = SecondPeriod
    /\ UNCHANGED <<options, queue, processing, loop, loopTimer, items, backoffTimer,
                   sinceStart>>
    /\ UNCHANGED <<wfVars, svcVars>>

\* setInterval(() => { this.requestCounts.perMinute = 0 }, 60000). The minute is
\* not measured: the reset may come at any moment.
ResetMinute ==
    /\ requestCounts.perMinute > 0
    /\ requestCounts' = [requestCounts EXCEPT !.perMinute = 0]
    /\ UNCHANGED <<options, queue, processing, loop, loopTimer, items, backoffTimer,
                   secTimer, sinceStart>>
    /\ UNCHANGED <<wfVars, svcVars>>

\* clearQueue(): this.queue = []. The items of the queue are dropped with
\* their promises pending; the loop, the operation in flight and the timers
\* of the items in backoff are left as they are. old marks the operations
\* that were handed to execute before and had not settled.
ClearQueue ==
    /\ \E i \in Ops : items[i].st \in {"queued", "inflight", "backoff"} /\ ~items[i].old
    /\ queue' = <<>>
    /\ items' = [i \in Ops |->
                    IF \E k \in 1..Len(queue) : queue[k] = i
                    THEN [items[i] EXCEPT !.st = "cleared", !.old = TRUE]
                    ELSE IF items[i].st \in {"inflight", "backoff"}
                    THEN [items[i] EXCEPT !.old = TRUE]
                    ELSE items[i]]
    /\ UNCHANGED <<options, processing, loop, loopTimer, requestCounts, backoffTimer,
                   secTimer, sinceStart>>
    /\ UNCHANGED <<wfVars, svcVars>>

\* the timers that are running, by the ms they have left
RunningTimers ==
    {secTimer}
        \cup (IF loop.at = "delay" THEN {loopTimer} ELSE {})
        \cup {backoffTimer[i] : i \in {j \in Ops : items[j].st = "backoff"}}

SetMin(S) == CHOOSE x \in S : \A y \in S : x <= y

\* Time passes, by no more than the running timer that is due first has left;
\* a timer that is due fires before time passes on.
Advance ==
    /\ \A t \in RunningTimers : t > 0
    /\ LET d == Min(TimeStep, SetMin(RunningTimers))
       IN  /\ secTimer' = secTimer - d
           /\ loopTimer' = IF loop.at = "delay" THEN loopTimer - d ELSE loopTimer
           /\ backoffTimer' = [i \in Ops |->
                                 IF items[i].st = "backoff" THEN backoffTimer[i] - d
                                 ELSE backoffTimer[i]]
           /\ sinceStart' = [k \in 1..Len(sinceStart) |-> Min(sinceStart[k] + d, 2000)]
    /\ UNCHANGED <<options, queue, processing, loop, requestCounts, items>>
    /\ UNCHANGED <<wfVars, svcVars>>

-----------------------------------------------------------------------------
(* ModelRotator *)

\* the largest recentErrors a model is driven to
MaxRecentErrors == 4
\* the step by which the clock of the services is advanced, in ms
ClockStep == 1000

\* if (stats.recentErrors >= 3)
ErrorThreshold == 3
\* timeSinceLastRequest > 1000
Cooldown == 1000

\* recentErrors moves in halves (a success takes 0.5 off): it is kept as the
\* number of half errors, n errors being Halves(n)
Halves(n) == 2 * n

Max(a, b) == IF a > b THEN a ELSE b

\* the model ids; sentimentModelRotator is constructed with the first two
AllModels == {"claude", "mistral"}
sentimentModelRotator == <<"claude", "mistral">>
ModelLists == {<<"claude">>, sentimentModelRotator}

\* an age that says no more than "longer ago than the cooldown"
LongAgo == Cooldown + ClockStep

\* ModelStats as the constructor sets it (lastRequestTime: 0 lies far in the
\* past); requestCount is only reported by getStats and is left out
FreshStats == [sinceLastRequest |-> LongAgo, recentErrors |-> 0, isAvailable |-> TRUE]

NoCall == [op |-> "none", model |-> "none", flag |-> FALSE]

\* new ModelRotator(list)
RotatorConstructed(list) ==
    /\ modelList = list
    /\ models = [m \in {list[i] : i \in 1..Len(list)} |-> FreshStats]
    /\ currentIndex = 0
    /\ failStreak = [m \in {list[i] : i \in 1..Len(list)} |-> 0]
    /\ quarantined = [m \in {list[i] : i \in 1..Len(list)} |-> FALSE]
    /\ tickSeen = [m \in {list[i] : i \in 1..Len(list)} |-> TRUE]
    /\ lastCall = NoCall
    /\ lastReturned = "none"

\* the position in modelList (from 1) the i-th round of the for loop looks at
ScanAt(i) == ((currentIndex + i) % Len(modelList)) + 1

\* stats.isAvailable && timeSinceLastRequest > 1000
Qualifies(m) == models[m].isAvailable /\ models[m].sinceLastRequest > Cooldown

\* a fallback that does not compare: bestModel stays this.modelList[0]
LeastErrorsFirst(k, best) == best

\* this.models.forEach(...) from the k-th entry on, best being bestModel so far:
\* a later model replaces it only with strictly fewer recentErrors
RECURSIVE LeastErrors(_, _)
LeastErrors(k, best) ==
    IF k > Len(modelList) THEN best
    ELSE LeastErrors(k + 1,
            IF models[modelList[k]].recentErrors < models[best].recentErrors
            THEN modelList[k] ELSE best)

\* getNextModel(): the model returned, the new currentIndex, and whether the
\* loop found none and the model with the least errors was returned
getNextModel ==
    LET hits == {i \in 0..(Len(modelList) - 1) : Qualifies(modelList[ScanAt(i)])}
    IN  IF hits # {}
        THEN LET i == CHOOSE x \in hits : \A y \in hits : x <= y
             IN  [model |-> modelList[ScanAt(i)],
                  currentIndex |-> ScanAt(i) % Len(modelList),
                  fallback |-> FALSE]
        ELSE [model |-> LeastErrors(1, modelList[1]),
              currentIndex |-> currentIndex,
              fallback |-> TRUE]

GetNextModel ==
    /\ currentIndex' = getNextModel.currentIndex
    /\ lastCall' = [op |-> "getNextModel", model |-> getNextModel.model,
                    flag |-> getNextModel.fallback]
    /\ lastReturned' = getNextModel.model
    /\ UNCHANGED <<modelList, models, failStreak, quarantined, tickSeen>>
    /\ UNCHANGED <<wfVars, rlVars, cacheVars, batchVars>>

\* a test that lets the third error pass
MarksUnavailableLate(e) == e > Halves(ErrorThreshold)

\* if (stats.recentErrors >= 3) stats.isAvailable = false
MarksUnavailable(e) == e >= Halves(ErrorThreshold)

\* the body of recordRequest on the stats of a known model
recordRequest(stats, success) ==
    IF success
    THEN [stats EXCEPT !.sinceLastRequest = 0,
                       !.recentErrors = Max(0, @ - 1)]
    ELSE [stats EXCEPT !.sinceLastRequest = 0,
                       !.recentErrors = @ + Halves(1),
                       !.isAvailable = IF MarksUnavailable(stats.recentErrors + Halves(1))
                                       THEN FALSE ELSE @]

\* recordRequest(model, success); a model the rotator does not know is ignored
RotatorRecords(m, success) ==
    IF m \notin DOMAIN models
    THEN UNCHANGED <<models, failStreak, quarantined, tickSeen>>
    ELSE /\ success \/ models[m].recentErrors + Halves(1) <= Halves(MaxRecentErrors)
         /\ models' = [models EXCEPT ![m] = recordRequest(models[m], success)]
         /\ failStreak' = [failStreak EXCEPT ![m] = IF success THEN 0 ELSE Min(3, @ + 1)]
         /\ quarantined' = [quarantined EXCEPT ![m] =
                              \/ @
                              \/ ~success /\ failStreak'[m] = 3 /\ ~models'[m].isAvailable]
         /\ tickSeen' = [tickSeen EXCEPT ![m] = FALSE]

\* sentimentModelRotator.recordRequest(m, success), called on its own
RecordRequest(m, success) ==
    /\ lastCall' = IF success THEN NoCall
                   ELSE [op |-> "failure", model |-> m, flag |-> FALSE]
    /\ RotatorRecords(m, success)
    /\ UNCHANGED <<modelList, currentIndex, lastReturned>>
    /\ UNCHANGED <<wfVars, rlVars, cacheVars, batchVars>>

\* a decay that takes off whole errors only
DecayedWhole(e) == IF e >= Halves(1) THEN e - Halves(1) ELSE e

\* Math.max(0, stats.recentErrors - 1)
Decayed(e) == Max(0, e - Halves(1))

\* The callback of setInterval(..., 60000). The minute is not measured: the tick
\* may come at any moment, but a second tick with no request in between finds
\* the last request longer ago than the cooldown.
DecayTick ==
    /\ models' = [m \in DOMAIN models |->
                    [sinceLastRequest |-> IF tickSeen[m] THEN LongAgo
                                          ELSE models[m].sinceLastRequest,
                     recentErrors |-> Decayed(models[m].recentErrors),
                     isAvailable |-> IF Decayed(models[m].recentErrors) = 0 THEN TRUE
                                     ELSE models[m].isAvailable]]
    /\ quarantined' = [m \in DOMAIN models |-> quarantined[m] /\ ~models'[m].isAvailable]
    /\ tickSeen' = [m \in DOMAIN models |-> TRUE]
    /\ lastCall' = NoCall
    /\ UNCHANGED <<modelList, currentIndex, failStreak, lastReturned>>
    /\ UNCHANGED <<wfVars, rlVars, cacheVars, batchVars>>

\* Date.now() moves on by d ms, as the rotator sees it
RotatorClock(d) ==
    /\ models' = [m \in DOMAIN models |->
                    [models[m] EXCEPT !.sinceLastRequest = Min(@ + d, LongAgo)]]
    /\ tickSeen' = [m \in DOMAIN models |-> tickSeen[m] \/ models'[m].sinceLastRequest = LongAgo]
    /\ lastCall' = NoCall
    /\ UNCHANGED <<modelList, currentIndex, failStreak, quarantined, lastReturned>>

-----------------------------------------------------------------------------
(* SimpleCache *)

\* the keys and values of the cache that is followed on its own, the ttl
\* arguments of set in seconds (0: the argument is left out, or 0), and the
\* defaultTTLSeconds it may be constructed with
PlainKeys == {"k1", "k2"}
PlainValues == {"v1", "v2"}
TtlArgs == {0, 1, 2}
DefaultTtls == {1, 2}

\* no entry in the Map; a CacheItem, its expiry kept as the ms left until
\* Date.now() reaches it (below 0: Date.now() > item.expiry)
NoItem == [present |-> FALSE, value |-> "null", left |-> 0]
CacheItem(value, ttl) == [present |-> TRUE, value |-> value, left |-> ttl]

NoGet == [called |-> FALSE, key |-> "none", hit |-> FALSE, value |-> "null"]
NeverSet == [ttlSeconds |-> 0, value |-> "null", elapsed |-> 0]

\* new SimpleCache(defaultTTLSeconds) over the keys it will be asked for
CacheConstructed(keys, defaultTTLSeconds) ==
    /\ defaultTTL = defaultTTLSeconds * 1000
    /\ cache = [k \in keys |-> NoItem]
    /\ sinceSet = [k \in keys |-> NeverSet]
    /\ got = NoGet

\* an entry taken for expired from the moment of its expiry on
ExpiredAtExpiry(item) == item.left <= 0

\* Date.now() > item.expiry
Expired(item) == item.left < 0

\* const ttl = (ttlSeconds || this.defaultTTL / 1000) * 1000
TtlMs(ttlSeconds) ==
    IF ttlSeconds # 0 THEN ttlSeconds * 1000 ELSE (defaultTTL \div 1000) * 1000

\* set(key, value, ttlSeconds): the Map after it
CacheAfterSet(c, key, value, ttlSeconds) ==
    [c EXCEPT ![key] = CacheItem(value, TtlMs(ttlSeconds))]

\* get(key): what it returns and the Map after it
CacheGet(c, key) ==
    IF ~c[key].present
    THEN [hit |-> FALSE, value |-> NoItem.value, cache |-> c]
    ELSE IF Expired(c[key])
    THEN [hit |-> FALSE, value |-> NoItem.value, cache |-> [c EXCEPT ![key] = NoItem]]
    ELSE [hit |-> TRUE, value |-> c[key].value, cache |-> c]

Set(key, value, ttlSeconds) ==
    /\ cache' = CacheAfterSet(cache, key, value, ttlSeconds)
    /\ sinceSet' = [sinceSet EXCEPT ![key] =
                      [ttlSeconds |-> ttlSeconds, value |-> value, elapsed |-> 0]]
    /\ got' = NoGet
    /\ UNCHANGED defaultTTL
    /\ UNCHANGED <<wfVars, rlVars, rotVars, batchVars>>

Get(key) ==
    /\ cache' = CacheGet(cache, key).cache
    /\ got' = [called |-> TRUE, key |-> key, hit |-> CacheGet(cache, key).hit,
               value |-> CacheGet(cache, key).value]
    /\ UNCHANGED <<defaultTTL, sinceSet>>
    /\ UNCHANGED <<wfVars, rlVars, rotVars, batchVars>>

\* cleanup(), called by setInterval every 60000 ms; the minute is not measured
Cleanup ==
    /\ cache' = [k \in DOMAIN cache |->
                    IF cache[k].present /\ Expired(cache[k]) THEN NoItem ELSE cache[k]]
    /\ got' = NoGet
    /\ UNCHANGED <<defaultTTL, sinceSet>>
    /\ UNCHANGED <<wfVars, rlVars, rotVars, batchVars>>

\* Date.now() moves on by d ms, as the cache sees it
CacheClock(d) ==
    /\ cache' = [k \in DOMAIN cache |->
                    IF cache[k].present
                    THEN [cache[k] EXCEPT !.left = Max(@ - d, 0 - 1)]
                    ELSE cache[k]]
    /\ sinceSet' = [k \in DOMAIN sinceSet |->
                      [sinceSet[k] EXCEPT !.elapsed = Min(@ + d, TtlMs(sinceSet[k].ttlSeconds) + d)]]
    /\ got' = NoGet
    /\ UNCHANGED defaultTTL

-----------------------------------------------------------------------------
(* Batch sentiment analysis *)

\* the most analyzeBatchSmart calls that are followed
MaxCalls == 3
\* the step by which the clock is advanced between batch calls, in ms
BatchClockStep == 300000
\* the most entries a provider puts into its results array
MaxEntries == 2

\* export const sentimentCache = new SimpleCache<any>(600)
SentimentCacheTtl == 600
\* sentimentCache.set(cacheKey, result, 600)
BatchTtl == 600

\* A text: a JavaScript string as its characters, or the undefined that
\* posts.map(post => post.content) yields for a stored post with no content
Text(chars) == [defined |-> TRUE, chars |-> chars]
Undefined == [defined |-> FALSE, chars |-> <<>>]

Separator == <<"|", "|", "|">>

\* the lists of texts analyzeBatchSmart is called with
TextLists ==
    { <<>>,
      <<Text(<<"a">>)>>,
      <<Text(<<"a">>), Text(<<"b">>)>>,
      <<Text(<<"a", "|", "|", "|", "b">>)>>,
      <<Undefined>> }

\* Array.prototype.join: undefined is joined as the empty string
RECURSIVE join(_, _)
join(texts, sep) ==
    IF texts = <<>> THEN <<>>
    ELSE IF Len(texts) = 1 THEN texts[1].chars
    ELSE texts[1].chars \o sep \o join(Tail(texts), sep)

CharCode(c) == CASE c = "a" -> 1 [] c = "b" -> 2 [] c = "|" -> 3

\* createHash('md5').update(str).digest('hex'), taken to be free of
\* collisions: the digest is the string read as a number with its characters
\* as digits
RECURSIVE md5(_)
md5(str) == IF str = <<>> THEN 0 ELSE CharCode(Head(str)) + 4 * md5(Tail(str))

\* `claude_batch_${md5}` and `mistral_batch_${md5}`
KeyPrefix(model) == IF model = "claude" THEN "claude_batch_" ELSE "mistral_batch_"
CacheKey(model, texts) == [prefix |-> KeyPrefix(model), digest |-> md5(join(texts, Separator))]
BatchKeys == {CacheKey(m, texts) : m \in AllModels, texts \in TextLists}

\* A BatchSentimentResult: whether its results is an array, the number of its
\* entries, and the _error its entries carry
NoResult == [array |-> FALSE, entries |-> 0, error |-> "none"]
Parsed(o) == [array |-> o.array, entries |-> o.entries, error |-> "none"]

\* results: texts.map((text, index) => ({ index, sentiment: 'neutral', ... }))
FailureText(model) == IF model = "claude" THEN "Batch analysis failed" ELSE "All models failed"
Placeholder(texts, error) == [array |-> TRUE, entries |-> Len(texts), error |-> error]

\* What a provider call through bedrockRateLimiter.execute comes to: JSON with
\* a results array of some length, JSON whose results is no array, JSON with
\* no results, text no parse layer reads, the rejection of the queue after its
\* retries of a throttling error, and any other error
ProviderOutcomes ==
    {[kind |-> "results", array |-> TRUE, entries |-> n] : n \in 0..MaxEntries}
        \cup {[kind |-> "results", array |-> FALSE, entries |-> 0]}
        \cup {[kind |-> k, array |-> FALSE, entries |-> 0] :
                k \in {"noResults", "unparseable", "throttled", "error"}}

\* if (result && result.results), and in analyzeBatchWithClaude
\* if (!Array.isArray(result.results)) throw
Accepted(model, o) == o.kind = "results" /\ (model = "claude" => o.array)

\* the placeholders of the catch block cached like a result
AfterProviderCachesAll(model, texts, o) ==
    [cached |-> TRUE,
     result |-> IF Accepted(model, o) THEN Parsed(o)
                ELSE Placeholder(texts, FailureText(model))]

\* analyzeBatchWithClaude(texts, false) and analyzeBatchWithMistral(texts) once
\* the provider call has come to o: the result is cached and returned, or the
\* catch block returns the placeholders
AfterProvider(model, texts, o) ==
    IF Accepted(model, o)
    THEN [cached |-> TRUE, result |-> Parsed(o)]
    ELSE [cached |-> FALSE, result |-> Placeholder(texts, FailureText(model))]

\* 'Too many requests' as the catch block of analyzeBatchWithClaude spells it
TooManyRequestsLiteral == <<"T","o","o"," ","m","a","n","y"," ","r","e","q","u","e","s","t","s">>

\* if (useMistralFallback && (error.message.includes('rate limit') ||
\*     error.message.includes('Too many requests'))): the catch block of
\* analyzeBatchWithClaude hands the texts to analyzeBatchWithMistral. An error
\* without a message has nothing to search (the test itself throws).
FallsBackToMistral(error, useMistralFallback) ==
    /\ useMistralFallback
    /\ \/ includes(error.message, RateLimitText)
       \/ includes(error.message, TooManyRequestsLiteral)

\* texts.map(... text.substring(0, 500) ...) ahead of the try block
ThrowsBeforeCall(texts) == \E i \in 1..Len(texts) : ~texts[i].defined

\* the other model analyzeBatchSmart tries in its catch block
FallbackModel(model) == IF model = "claude" THEN "mistral" ELSE "claude"

\* the inner catch block missing: a failure of the fallback model leaves
\* analyzeBatchSmart
FallbackUncaught(threw) == threw

\* catch (fallbackError) { result = { results: texts.map(...) } }: whether a
\* failure of the fallback model leaves analyzeBatchSmart
FallbackThrows(threw) == FALSE

\* no analyzeBatchSmart call is in progress and none has returned
IdleCall == [st |-> "idle", texts |-> <<>>, model |-> "none", repeat |-> FALSE]
NoReturn == [returned |-> FALSE, texts |-> <<>>, result |-> NoResult, invoked |-> 0,
             failed |-> 0, recorded |-> FALSE,
             threw |-> FALSE, repeat |-> FALSE, previous |-> NoResult,
             elapsed |-> 0, calls |-> 0]

\* the latest getOptimalBatchSize call
NaN == [kind |-> "NaN", v |-> 0]
Infinity == [kind |-> "Infinity", v |-> 0]
Num(n) == [kind |-> "number", v |-> n]
NoSizeCall == [called |-> FALSE, lengths |-> <<>>, strict |-> Num(0), primary |-> Num(0)]

\* no analyzeSentiment call has been made
NoCounts == [counts |-> [c \in {"positive", "negative", "neutral", "mixed"} |-> 0],
             notANumber |-> {}]
NoReport == [kind |-> "none", analyzed |-> 0, distribution |-> NoCounts, dominant |-> "none"]
NoAnalysis == [st |-> "idle", n |-> 0, length |-> 0, size |-> Num(0), i |-> 0, k |-> 0,
               results |-> <<>>, shapes |-> <<>>, threwAt |-> {}, sends |-> {},
               report |-> NoReport,
               deep |-> FALSE, stored |-> FALSE, before |-> <<>>, keyPosts |-> <<>>]

BatchIdle ==
    /\ call = IdleCall
    /\ batchLog = NoReturn
    /\ sizeCall = NoSizeCall
    /\ analysis = NoAnalysis

\* whether a call with texts made now repeats the latest call: the same list,
\* answered with a result of a provider, less than the ttl ago
Repeats(texts) ==
    /\ batchLog.returned
    /\ ~batchLog.threw
    /\ batchLog.texts = texts
    /\ batchLog.result.error = "none"
    /\ batchLog.elapsed < BatchTtl * 1000

\* analyzeBatchSmart returns result (or throws): its promise settles. invoked
\* and failed count the provider calls it made and those of them that failed,
\* recorded is the success it passed to recordRequest.
Returns(texts, result, invoked, failed, recorded, threw, repeat) ==
    /\ call' = IdleCall
    /\ batchLog' = [returned |-> TRUE, texts |-> texts,
                    result |-> IF threw THEN NoResult ELSE result,
                    invoked |-> invoked, failed |-> failed, recorded |-> recorded,
                    threw |-> threw, repeat |-> repeat,
                    previous |-> batchLog.result, elapsed |-> 0,
                    calls |-> batchLog.calls + 1]
    /\ UNCHANGED <<sizeCall, analysis>>

\* analyzeBatchSmart(texts) up to its first provider call: getNextModel, the
\* cache lookup of the model's function and, where that function throws ahead
\* of its try block, the same of the fallback model. A call that needs no
\* provider records the request and returns in the same step.
AnalyzeBatchSmart(texts) ==
    LET nextModel == getNextModel.model
        first == CacheGet(cache, CacheKey(nextModel, texts))
        second == CacheGet(first.cache, CacheKey(FallbackModel(nextModel), texts))
    IN  /\ call.st = "idle"
        /\ batchLog.calls < MaxCalls
        /\ currentIndex' = getNextModel.currentIndex
        /\ lastCall' = [op |-> "getNextModel", model |-> nextModel,
                        flag |-> getNextModel.fallback]
        /\ lastReturned' = nextModel
        /\ got' = NoGet
        /\ UNCHANGED <<modelList, defaultTTL, sinceSet>>
        /\ IF first.hit
           THEN /\ cache' = first.cache
                /\ RotatorRecords(nextModel, TRUE)
                /\ Returns(texts, first.value, 0, 0, TRUE, FALSE, Repeats(texts))
           ELSE IF ThrowsBeforeCall(texts)
           THEN /\ cache' = second.cache
                /\ RotatorRecords(nextModel, second.hit)
                /\ Returns(texts,
                           IF second.hit THEN second.value
                           ELSE Placeholder(texts, "All models failed"),
                           0, 0, second.hit,
                           ~second.hit /\ FallbackThrows(TRUE), Repeats(texts))
           ELSE /\ cache' = first.cache
                /\ call' = [st |-> "awaiting", texts |-> texts, model |-> nextModel,
                            repeat |-> Repeats(texts)]
                /\ UNCHANGED <<models, failStreak, quarantined, tickSeen>>
                /\ UNCHANGED <<batchLog, sizeCall, analysis>>
        /\ UNCHANGED <<wfVars, rlVars>>

\* The provider call of the model's function comes to o: the function returns
\* (it caches what it accepts, and turns every failure into placeholders), so
\* analyzeBatchSmart records a success and returns.
ProviderSettles(o) ==
    LET after == AfterProvider(call.model, call.texts, o)
    IN  /\ call.st = "awaiting"
        /\ cache' = IF after.cached
                    THEN CacheAfterSet(cache, CacheKey(call.model, call.texts),
                                       after.result, BatchTtl)
                    ELSE cache
        /\ got' = NoGet
        /\ RotatorRecords(call.model, TRUE)
        /\ lastCall' = NoCall
        /\ Returns(call.texts, after.result, 1, IF after.cached THEN 0 ELSE 1, TRUE,
                   FALSE, call.repeat)
        /\ UNCHANGED <<modelList, currentIndex, lastReturned, defaultTTL, sinceSet>>
        /\ UNCHANGED <<wfVars, rlVars>>

\* Date.now() moves on by d ms, as the batch calls see it
BatchClock(d) ==
    /\ batchLog' = [batchLog EXCEPT !.elapsed =
                      IF batchLog.returned THEN Min(@ + d, BatchTtl * 1000) ELSE @]
    /\ UNCHANGED <<call, sizeCall, analysis>>

\* Date.now() moves on by d ms
AdvanceClock(d) ==
    /\ RotatorClock(d)
    /\ CacheClock(d)
    /\ BatchClock(d)
    /\ UNCHANGED <<wfVars, rlVars>>

\* ~4 chars per token, target ~10k tokens per batch, and the clamps of the
\* two variants of getOptimalBatchSize
CharsPerToken == 4
TargetTokens == 10000
ClampMin == 5
StrictClampMax == 10
PrimaryClampMax == 25

\* the lengths of the texts getOptimalBatchSize is called with, and the lists
\* of them
MaxTexts == 2
TextLengths == {0, 1, 3, 4, 5, 3999, 4000, 7997, 8000, 40000}
LengthLists == UNION {[1..n -> TextLengths] : n \in 0..MaxTexts}

RECURSIVE Sum(_)
Sum(lens) == IF lens = <<>> THEN 0 ELSE Head(lens) + Sum(Tail(lens))

\* Math.ceil(avgTextLength / 4), avgTextLength being sum / texts.length: 0 / 0
\* is NaN, and Math.ceil(NaN) is NaN
tokensPerText(lens) ==
    IF Len(lens) = 0 THEN NaN
    ELSE Num((Sum(lens) + CharsPerToken * Len(lens) - 1) \div (CharsPerToken * Len(lens)))

\* Math.floor(targetTokens / tokensPerText): n / 0 is Infinity
optimalSize(lens) ==
    IF tokensPerText(lens).kind = "NaN" THEN NaN
    ELSE IF tokensPerText(lens).v = 0 THEN Infinity
    ELSE Num(TargetTokens \div tokensPerText(lens).v)

\* Math.min and Math.max of a number and a value that may be NaN or Infinity
MathMin(a, x) ==
    IF x.kind = "NaN" THEN NaN
    ELSE IF x.kind = "Infinity" THEN Num(a)
    ELSE Num(Min(a, x.v))
MathMax(a, x) ==
    IF x.kind = "number" THEN Num(Max(a, x.v)) ELSE x

\* getOptimalBatchSize of sentiment-batch.ts (clamped to 10) and of the
\* earlier variant (clamped to 25)
getOptimalBatchSize(lens) == MathMax(ClampMin, MathMin(StrictClampMax, optimalSize(lens)))
getOptimalBatchSizePrimary(lens) == MathMax(ClampMin, MathMin(PrimaryClampMax, optimalSize(lens)))

GetOptimalBatchSize(lens) ==
    /\ sizeCall' = [called |-> TRUE, lengths |-> lens,
                    strict |-> getOptimalBatchSize(lens),
                    primary |-> getOptimalBatchSizePrimary(lens)]
    /\ UNCHANGED <<call, batchLog, analysis>>
    /\ UNCHANGED <<wfVars, rlVars, rotVars, cacheVars>>

-----------------------------------------------------------------------------
(* analyzeSentiment: the batch loop and the aggregation *)

\* the most texts analyzeSentiment is called with
MaxPosts == 7

\* the length every text of a call has: short texts make one batch of up to
\* 10, texts of 8000 characters make batches of 5
PostLengths == {20, 8000}

\* SentimentResult['sentiment']
Categories == {"positive", "negative", "neutral", "mixed"}

\* the sentiment of the t-th text, as a provider that reads it well reports it
Classify(t) ==
    CASE t % 4 = 1 -> "positive"
      [] t % 4 = 2 -> "negative"
      [] t % 4 = 3 -> "neutral"
      [] OTHER -> "mixed"

\* keyPosts.length < 5 for texts handed in, keyPosts.length < 10 for stored posts
TextKeyPosts == 5
StoredKeyPosts == 10
\* the most posts the query of the stored posts returns
MaxStored == 11

\* an index of the results array that was never assigned
Hole == [text |-> 0, sentiment |-> "undefined"]

\* results[index] = value: an index past the end makes the array longer, the
\* indexes between its old end and index staying unassigned
ArrayAssign(arr, index, value) ==
    IF index < Len(arr)
    THEN [arr EXCEPT ![index + 1] = value]
    ELSE arr \o [k \in 1..(index - Len(arr)) |-> Hole] \o <<value>>

\* posts.forEach((post, idx) => ...) and textsToAnalyze.forEach((text, idx) => ...)
\* from idx on: the index of each item that meets the condition is pushed while
\* keyPosts.length is below cap
RECURSIVE SelectKeyPosts(_, _, _, _, _)
SelectKeyPosts(idx, count, chosen, cap, acc) ==
    IF idx >= count THEN acc
    ELSE SelectKeyPosts(idx + 1, count, chosen, cap,
                        IF idx \in chosen /\ Len(acc) < cap THEN Append(acc, idx) ELSE acc)

\* an entry of batchResult.results: null, or an object with index and sentiment
Null == [null |-> TRUE, index |-> 0, sentiment |-> "neutral"]
Entry(index, sentiment) == [null |-> FALSE, index |-> index, sentiment |-> sentiment]

\* the entries for the texts of the batch at offset off, in the order of order
Listed(off, order) == [k \in 1..Len(order) |-> Entry(order[k], Classify(off + order[k] + 1))]

\* a sentiment the provider names that is none of the four of the prompt
OffLabel == "very positive"

\* a bedrockClient.send(command): the function that issues it, and whether
\* it is the operation handed to bedrockRateLimiter.execute
Send(path, limited) == [path |-> path, limited |-> limited]

\* the sends of the four functions
BatchClaudeSend == Send("analyzeBatchWithClaude", TRUE)
BatchMistralSend == Send("analyzeBatchWithMistral", TRUE)
ItemClaudeSend == Send("analyzeWithClaude", TRUE)
ItemMistralSend == Send("analyzeWithBedrock", FALSE)

\* What analyzeBatchSmart returns for the batch of len texts at offset off: the
\* parsed output of a provider (one entry per text in order or in reverse, an
\* entry missing, an entry too many, an entry listed twice, a null among the
\* entries, a sentiment of its own wording, no summary, results that cannot be
\* iterated), or the placeholders
BatchResults(off, len) ==
    LET inOrder == [k \in 1..len |-> k - 1]
        answer(shape, results) ==
            [shape |-> shape, iterable |-> TRUE, summary |-> TRUE, results |-> results]
    IN  { answer("inOrder", Listed(off, inOrder)),
          answer("reversed", Listed(off, [k \in 1..len |-> len - k])),
          answer("short", Listed(off, SubSeq(inOrder, 1, len - 1))),
          answer("long", Listed(off, inOrder) \o <<Entry(len, "neutral")>>),
          answer("twice", Listed(off, <<0>> \o inOrder)),
          answer("null", Listed(off, SubSeq(inOrder, 1, len - 1)) \o <<Null>>),
          answer("offLabel", [Listed(off, inOrder) EXCEPT ![1].sentiment = OffLabel]),
          [answer("noSummary", Listed(off, inOrder)) EXCEPT !.summary = FALSE],
          [answer("notIterable", <<>>) EXCEPT !.iterable = FALSE],
          answer("placeholders", [k \in 1..len |-> Entry(k - 1, "neutral")]) }

\* The sends analyzeBatchSmart may have made for res: none when the cache
\* answered, else the one of the function of the selected model. Placeholders
\* are not cached, analyzeBatchWithMistral always sets a summary and
\* analyzeBatchWithClaude accepts no results but an array.
BatchSends(res) ==
    (IF res.shape = "placeholders" THEN {} ELSE {{}})
        \cup (IF res.iterable THEN {{BatchClaudeSend}} ELSE {})
        \cup (IF res.summary THEN {{BatchMistralSend}} ELSE {})

\* The sends of analyzeWithClaude(text): none when the cache answers, its own
\* when Claude answers, and when that call or the parsing of its answer fails
\* the one of analyzeWithBedrock as well
ItemSends == {{}, {ItemClaudeSend}, {ItemClaudeSend, ItemMistralSend}}

\* for (const result of batchResult.results) { if (result.index < batch.length)
\* results.push({ ..., businessContext: batchResult.summary.business_implications }) }
\* from the k-th entry on: the results array after it and whether it threw
RECURSIVE PushBatch(_, _, _, _, _)
PushBatch(res, k, off, len, acc) ==
    IF k > Len(res.results) THEN [results |-> acc, threw |-> FALSE]
    ELSE IF res.results[k].null THEN [results |-> acc, threw |-> TRUE]
    ELSE IF res.results[k].index < len
    THEN IF ~res.summary THEN [results |-> acc, threw |-> TRUE]
         ELSE PushBatch(res, k + 1, off, len,
                        Append(acc, [text |-> off + res.results[k].index + 1,
                                     sentiment |-> res.results[k].sentiment]))
    ELSE PushBatch(res, k + 1, off, len, acc)

\* the try block after analyzeBatchSmart has returned res
MapBatch(res, off, len, acc) ==
    IF ~res.iterable THEN [results |-> acc, threw |-> TRUE]
    ELSE PushBatch(res, 1, off, len, acc)

\* for (const result of results) { sentimentCounts[result.sentiment]++ } from
\* the k-th result on: a key sentimentCounts does not have is undefined, and
\* undefined++ stores NaN under it
RECURSIVE Tally(_, _, _)
Tally(results, k, tally) ==
    IF k > Len(results) THEN tally
    ELSE Tally(results, k + 1,
               IF results[k].sentiment \in Categories
               THEN [tally EXCEPT !.counts[results[k].sentiment] = @ + 1]
               ELSE [tally EXCEPT !.notANumber = @ \cup {results[k].sentiment}])

\* the keys of sentimentCounts in the order the literal lists them
CategoryOrder == <<"positive", "negative", "neutral", "mixed">>

RECURSIVE SeqOf(_)
SeqOf(S) == IF S = {} THEN <<>>
            ELSE LET x == CHOOSE x \in S : TRUE IN <<x>> \o SeqOf(S \ {x})

\* Object.entries(sentimentCounts): the four categories with their counts,
\* then the keys added by the loop, each with NaN
CountEntries(tally) ==
    [k \in 1..4 |-> [key |-> CategoryOrder[k], count |-> Num(tally.counts[CategoryOrder[k]])]]
        \o [k \in 1..Cardinality(tally.notANumber) |->
               [key |-> SeqOf(tally.notANumber)[k], count |-> NaN]]

\* a comparator that puts the smaller count first
SortCompareAscending(a, b) ==
    IF a.count.kind = "NaN" \/ b.count.kind = "NaN" THEN 0 ELSE a.count.v - b.count.v

\* (a, b) => b[1] - a[1], a NaN taken as 0 by sort
SortCompare(a, b) ==
    IF a.count.kind = "NaN" \/ b.count.kind = "NaN" THEN 0 ELSE b.count.v - a.count.v

\* Array.prototype.sort, which is stable: x is put into the sorted entries
\* behind every entry it does not come before
RECURSIVE SortInsert(_, _, _)
SortInsert(sorted, x, j) ==
    IF j > 0 /\ SortCompare(x, sorted[j]) < 0
    THEN SortInsert(sorted, x, j - 1)
    ELSE SubSeq(sorted, 1, j) \o <<x>> \o SubSeq(sorted, j + 1, Len(sorted))

RECURSIVE Sort(_, _, _)
Sort(entries, k, sorted) ==
    IF k > Len(entries) THEN sorted
    ELSE Sort(entries, k + 1, SortInsert(sorted, entries[k], Len(sorted)))

\* Object.entries(sentimentCounts).sort((a, b) => b[1] - a[1])[0][0]
dominantSentiment(tally) == Sort(CountEntries(tally), 1, <<>>)[1].key

\* what analyzeSentiment returns: 'Failed to analyze sentiment' when there are
\* no results, else the summary text over the distribution; at an index that
\* was never assigned result is undefined and result.sentiment throws
Aggregate(results, n) ==
    IF Len(results) = 0
    THEN [NoReport EXCEPT !.kind = "failed", !.analyzed = n]
    ELSE IF \E k \in 1..Len(results) : results[k] = Hole
    THEN [NoReport EXCEPT !.kind = "threw", !.analyzed = n]
    ELSE [kind |-> "report", analyzed |-> n,
          distribution |-> Tally(results, 1, NoCounts),
          dominant |-> dominantSentiment(Tally(results, 1, NoCounts))]

\* the batch at offset i: batch = textsToAnalyze.slice(i, i + optimalBatchSize)
BatchLen(a) == Min(a.size.v, a.n - a.i)

\* the end of a round of the for loop in state a: the pause before the next
\* batch, or after the last the deep analysis (if (deepAnalysis && !useMinMax))
\* or the aggregation
EndOfRound(a) ==
    IF a.i + a.size.v < a.n
    THEN [a EXCEPT !.st = "pause", !.k = 0]
    ELSE IF a.deep
    THEN [a EXCEPT !.st = "deep", !.k = 0]
    ELSE [a EXCEPT !.st = "done", !.k = 0, !.report = Aggregate(a.results, a.n)]

\* analyzeSentiment({texts, deepAnalysis: false}) with n texts of one length,
\* up to its first await: no text, and the loop is not entered
AnalyzeSentiment(n, length) ==
    LET size == getOptimalBatchSize([t \in 1..n |-> length])
        a == [NoAnalysis EXCEPT !.n = n, !.length = length, !.size = size]
    IN  /\ analysis.st \in {"idle", "done"}
        /\ analysis' = IF n = 0
                       THEN [a EXCEPT !.st = "done", !.report = Aggregate(<<>>, 0)]
                       ELSE [a EXCEPT !.st = "batch"]
        /\ UNCHANGED <<call, batchLog, sizeCall>>
        /\ UNCHANGED <<wfVars, rlVars, rotVars, cacheVars>>

\* await analyzeBatchSmart(batch) returns res and the try block runs: its
\* results are pushed, or it throws and the catch block turns to the texts of
\* the batch one by one
BatchSettles(res, sends) ==
    LET mapped == MapBatch(res, analysis.i, BatchLen(analysis), analysis.results)
        a == [analysis EXCEPT !.results = mapped.results,
                              !.shapes = Append(@, res.shape),
                              !.sends = @ \cup sends]
    IN  /\ analysis.st = "batch"
        /\ analysis' = IF mapped.threw
                       THEN [a EXCEPT !.st = "individual", !.k = 1,
                                      !.threwAt = @ \cup {analysis.i}]
                       ELSE EndOfRound(a)
        /\ UNCHANGED <<call, batchLog, sizeCall>>
        /\ UNCHANGED <<wfVars, rlVars, rotVars, cacheVars>>

\* await analyzeWithClaude(textItem) returns for the k-th text of the batch
\* (for a string it always returns: its own catch block falls back to
\* analyzeWithBedrock, and that to its word count), and the result is pushed
IndividualSettles(sends) ==
    LET t == analysis.i + analysis.k
        a == [analysis EXCEPT !.results = Append(@, [text |-> t, sentiment |-> Classify(t)]),
                              !.sends = @ \cup sends]
    IN  /\ analysis.st = "individual"
        /\ analysis' = IF analysis.k < BatchLen(analysis)
                       THEN [a EXCEPT !.k = @ + 1]
                       ELSE EndOfRound(a)
        /\ UNCHANGED <<call, batchLog, sizeCall>>
        /\ UNCHANGED <<wfVars, rlVars, rotVars, cacheVars>>

\* analyzeSentiment({texts, deepAnalysis: true}) with n >= 1 texts, or
\* analyzeSentiment({startup_name, deepAnalysis: true}) with n >= 1 stored
\* posts, up to its first await; one call is followed
AnalyzeSentimentDeep(n, length, stored) ==
    LET size == getOptimalBatchSize([t \in 1..n |-> length])
    IN  /\ analysis.st = "idle"
        /\ analysis' = [NoAnalysis EXCEPT !.n = n, !.length = length, !.size = size,
                                          !.st = "batch", !.deep = TRUE, !.stored = stored]
        /\ UNCHANGED <<call, batchLog, sizeCall>>
        /\ UNCHANGED <<wfVars, rlVars, rotVars, cacheVars>>

\* for (const keyPost of keyPosts) { results[keyPost.index] = await
\* analyzeWithClaude(keyPost.text) } from the k-th key post on; a call that
\* throws is logged and its entry left
RECURSIVE Overwrite(_, _, _, _)
Overwrite(results, keyPosts, k, failed) ==
    IF k > Len(keyPosts) THEN results
    ELSE Overwrite(IF keyPosts[k] \in failed THEN results
                   ELSE ArrayAssign(results, keyPosts[k],
                                    [text |-> keyPosts[k] + 1,
                                     sentiment |-> Classify(keyPosts[k] + 1)]),
                   keyPosts, k + 1, failed)

\* Step 2 of analyzeSentiment and the aggregation after it. low are the
\* indexes whose first result has a confidence below 0.6; for stored posts
\* the query is made again and returns posts posts, of which those at high
\* have a high engagement or a verified author; the calls for the key posts
\* at failed throw.
DeepAnalysis(low, high, posts, failed) ==
    LET uncertain == {idx \in low : idx < Len(analysis.results)}
        chosen == IF analysis.stored THEN high \cup uncertain ELSE uncertain
        keyPosts == SelectKeyPosts(0, IF analysis.stored THEN posts ELSE analysis.n, chosen,
                                   IF analysis.stored THEN StoredKeyPosts ELSE TextKeyPosts,
                                   <<>>)
        results == Overwrite(analysis.results, keyPosts, 1, failed)
    IN  /\ analysis.st = "deep"
        /\ analysis' = [analysis EXCEPT !.st = "done", !.before = analysis.results,
                                        !.keyPosts = keyPosts, !.results = results,
                                        !.report = Aggregate(results, analysis.n)]
        /\ UNCHANGED <<call, batchLog, sizeCall>>
        /\ UNCHANGED <<wfVars, rlVars, rotVars, cacheVars>>

\* the 500 ms between two batches are over: i += optimalBatchSize
PauseEnds ==
    /\ analysis.st = "pause"
    /\ analysis' = [analysis EXCEPT !.st = "batch", !.i = @ + analysis.size.v]
    /\ UNCHANGED <<call, batchLog, sizeCall>>
    /\ UNCHANGED <<wfVars, rlVars, rotVars, cacheVars>>

-----------------------------------------------------------------------------
(* Specifications *)

\* the singletons of the services as their modules construct them, unused
ServicesIdle ==
    /\ RotatorConstructed(sentimentModelRotator)
    /\ CacheConstructed({}, SentimentCacheTtl)
    /\ BatchIdle

NoMonitoring ==
    /\ interval = <<>>
    /\ duration = <<>>
    /\ intervalMs = 0
    /\ endTime = 0
    /\ now = 0
    /\ runs = 0

NotStarted ==
    /\ pc = "start"
    /\ task = [t \in TaskIds |-> "idle"]
    /\ dataSources = [k \in SourceKeys |-> Absent]
    /\ founderSlots = [n \in FounderNames |-> Absent]
    /\ sentimentAnalysis = Absent
    /\ writes = [k \in SourceKeys \cup FounderNames \cup {"sentimentAnalysis"} |-> 0]
    /\ summary = NoSummary
    /\ storeLog = "none"

\* a client starts startupAnalysisWorkflow with some founder and competitor lists
InitWF ==
    /\ mode = "analysis"
    /\ founders \in FounderLists
    /\ competitors \in CompetitorLists
    /\ ftask = [i \in 1..Len(founders) |-> "idle"]
    /\ NotStarted
    /\ NoMonitoring
    /\ Constructed(DefaultOptions)
    /\ ServicesIdle

NextWF ==
    \/ StartAnalysis
    \/ \E t \in SocialTasks \cup WebTasks : SettleConnector(t)
    \/ JoinPhase1
    \/ StartPhase2
    \/ JoinPhase2
    \/ StartFounders
    \/ \E i \in 1..Len(founders) : SettleFounder(i)
    \/ JoinFounders
    \/ StartCompetitive
    \/ SettleCompetitive
    \/ StartSentiment
    \/ SettleSentiment
    \/ SettleSave
    \/ SettleSummary

SpecWF == InitWF /\ [][NextWF]_vars

\* every scheduled activity settles (startToCloseTimeout and maximumAttempts bound
\* it) and every sleep returns
SpecWFLive == SpecWF /\ WF_vars(NextWF)

\* a client may cancel the run it started
NextCancel ==
    \/ NextWF
    \/ Cancel
    \/ \E t \in TaskIds : WorkerFinishes(t)

SpecCancel == InitWF /\ [][NextCancel]_vars

\* a client starts startupMonitoringWorkflow; it passes no founders and no competitors
InitMon ==
    /\ mode = "monitoring"
    /\ founders = <<>>
    /\ competitors = <<>>
    /\ ftask = <<>>
    /\ NotStarted
    /\ interval \in DurationStrings
    /\ duration \in DurationStrings
    /\ intervalMs = 0
    /\ endTime = 0
    /\ now = 0
    /\ runs = 0
    /\ Constructed(DefaultOptions)
    /\ ServicesIdle

NextMon ==
    \/ StartMonitoring
    \/ \E t \in SocialTasks \cup WebTasks : SettleConnector(t)
    \/ JoinPhase1
    \/ StartPhase2
    \/ JoinPhase2
    \/ StartSentiment
    \/ SettleSentiment
    \/ SettleSave
    \/ SettleSummary
    \/ WakeMonitoring

SpecMon == InitMon /\ [][NextMon]_vars

\* every activity settles and every sleep ends
SpecMonLive == SpecMon /\ WF_vars(NextMon)

\* a RateLimiter is constructed with some options; no workflow is running
InitRL ==
    /\ \E cfg \in LimiterOptions : Constructed(cfg)
    /\ mode = "none"
    /\ founders = <<>>
    /\ competitors = <<>>
    /\ ftask = <<>>
    /\ NotStarted
    /\ NoMonitoring
    /\ ServicesIdle

NextRL ==
    \/ \E i \in Ops : Execute(i)
    \/ FnReturns
    \/ \E e \in Errors : FnThrows(e)
    \/ DelayEnds
    \/ \E i \in Ops : Requeue(i)
    \/ ResetSecond
    \/ ResetMinute
    \/ Advance

SpecRL == InitRL /\ [][NextRL]_vars

\* Every call of an operation settles; the event loop keeps running: a timer
\* that is due fires (time does not pass while one is due) and otherwise time
\* goes on; and the per-minute reset keeps firing.
FairRL ==
    /\ WF_vars(FnReturns \/ \E e \in Errors : FnThrows(e))
    /\ WF_vars(DelayEnds \/ (\E i \in Ops : Requeue(i)) \/ ResetSecond \/ Advance)
    /\ WF_vars(ResetMinute)

\* a RateLimiter is constructed with the options of tightLimiter
InitRLLive ==
    /\ Constructed(tightLimiter)
    /\ mode = "none"
    /\ founders = <<>>
    /\ competitors = <<>>
    /\ ftask = <<>>
    /\ NotStarted
    /\ NoMonitoring
    /\ ServicesIdle

SpecRLLive == InitRLLive /\ [][NextRL]_vars /\ FairRL

\* bedrockRateLimiter is constructed
InitBackoff ==
    /\ Constructed(bedrockRateLimiter)
    /\ mode = "none"
    /\ founders = <<>>
    /\ competitors = <<>>
    /\ ftask = <<>>
    /\ NotStarted
    /\ NoMonitoring
    /\ ServicesIdle

\* all operations but one are handed to it: its delays are long
NextBackoff ==
    \/ \E i \in Ops \ {NumOps} : Execute(i)
    \/ FnReturns
    \/ \E e \in Errors : FnThrows(e)
    \/ DelayEnds
    \/ \E i \in Ops : Requeue(i)
    \/ ResetSecond
    \/ ResetMinute
    \/ Advance

SpecBackoff == InitBackoff /\ [][NextBackoff]_vars

\* the limiter of tightLimiter with clearQueue() called at any time
NextClear ==
    \/ NextRL
    \/ ClearQueue

SpecClear == InitRLLive /\ [][NextClear]_vars

\* no workflow is running and the RateLimiter is unused
CoreIdle ==
    /\ mode = "none"
    /\ founders = <<>>
    /\ competitors = <<>>
    /\ ftask = <<>>
    /\ NotStarted
    /\ NoMonitoring
    /\ Constructed(DefaultOptions)

\* a ModelRotator is constructed with some list of models
InitRot ==
    /\ \E list \in ModelLists : RotatorConstructed(list)
    /\ CacheConstructed({}, SentimentCacheTtl)
    /\ BatchIdle
    /\ CoreIdle

NextRot ==
    \/ GetNextModel
    \/ \E m \in AllModels, success \in BOOLEAN : RecordRequest(m, success)
    \/ DecayTick
    \/ AdvanceClock(ClockStep)

SpecRot == InitRot /\ [][NextRot]_vars

\* a ModelRotator is constructed with one model: its way back from being
\* unavailable is followed on its own (the decay tick treats every model alike)
InitRotLive ==
    /\ \E m \in AllModels : RotatorConstructed(<<m>>)
    /\ CacheConstructed({}, SentimentCacheTtl)
    /\ BatchIdle
    /\ CoreIdle

\* the decay interval keeps firing
SpecRotLive == InitRotLive /\ [][NextRot]_vars /\ WF_vars(DecayTick)

\* a SimpleCache is constructed with some default ttl
InitCache ==
    /\ \E ttl \in DefaultTtls : CacheConstructed(PlainKeys, ttl)
    /\ RotatorConstructed(sentimentModelRotator)
    /\ BatchIdle
    /\ CoreIdle

NextCache ==
    \/ \E k \in PlainKeys, v \in PlainValues, ttl \in TtlArgs : Set(k, v, ttl)
    \/ \E k \in PlainKeys : Get(k)
    \/ Cleanup
    \/ AdvanceClock(ClockStep)

SpecCache == InitCache /\ [][NextCache]_vars

\* the batch engine over sentimentModelRotator and sentimentCache
InitBatch ==
    /\ RotatorConstructed(sentimentModelRotator)
    /\ CacheConstructed(BatchKeys, SentimentCacheTtl)
    /\ BatchIdle
    /\ CoreIdle

NextBatch ==
    \/ \E texts \in TextLists : AnalyzeBatchSmart(texts)
    \/ \E o \in ProviderOutcomes : ProviderSettles(o)
    \/ DecayTick
    \/ Cleanup
    \/ AdvanceClock(BatchClockStep)

SpecBatch == InitBatch /\ [][NextBatch]_vars

\* getOptimalBatchSize is called with lists of texts of some lengths
InitSize ==
    /\ ServicesIdle
    /\ CoreIdle

NextSize == \E lens \in LengthLists : GetOptimalBatchSize(lens)

SpecSize == InitSize /\ [][NextSize]_vars

\* analyzeSentiment is called, one call after the other
InitAgg ==
    /\ ServicesIdle
    /\ CoreIdle

NextAgg ==
    \/ \E n \in 0..MaxPosts, length \in PostLengths : AnalyzeSentiment(n, length)
    \/ \E res \in BatchResults(analysis.i, BatchLen(analysis)) :
           \E sends \in BatchSends(res) : BatchSettles(res, sends)
    \/ \E sends \in ItemSends : IndividualSettles(sends)
    \/ PauseEnds

SpecAgg == InitAgg /\ [][NextAgg]_vars

\* the confidences of the first results, the engagement of the stored posts
\* and the failures of the key posts that are followed
LowPatterns == {{}, 0..MaxStored, {idx \in 0..MaxStored : idx % 2 = 0}}
HighPatterns(posts) == {{}, 0..(posts - 1), {posts - 1}}
FailedPatterns == {{}, {0}}

\* analyzeSentiment is called once with deepAnalysis: true
NextDeep ==
    \/ \E n \in 1..MaxPosts, length \in PostLengths : AnalyzeSentimentDeep(n, length, FALSE)
    \/ \E n \in 1..MaxStored, length \in PostLengths : AnalyzeSentimentDeep(n, length, TRUE)
    \/ \E res \in BatchResults(analysis.i, BatchLen(analysis)) :
           \E sends \in BatchSends(res) : BatchSettles(res, sends)
    \/ \E sends \in ItemSends : IndividualSettles(sends)
    \/ PauseEnds
    \/ \E low \in LowPatterns, posts \in {analysis.n, analysis.n + 1}, failed \in FailedPatterns :
           \E high \in HighPatterns(posts) : DeepAnalysis(low, high, posts, failed)

SpecDeep == InitAgg /\ [][NextDeep]_vars

-----------------------------------------------------------------------------
(* Properties of startupAnalysisWorkflow *)

Connectors == SocialTasks \cup WebTasks

\* C1: whichever connectors of phases 1 and 2 fail terminally, the slot of each
\* failed connector holds a string beginning with "Error:", the slot of each
\* connector that returned holds what it returned, and the workflow does not
\* fail: when it has ended it has returned a result with its summary.
C1_FailedConnectorsIsolated ==
    /\ \A t \in Connectors :
        /\ task[t] = "err" => StartsWithError(dataSources[t])
        /\ task[t] = "ok" => dataSources[t] = Payload(t)
    /\ pc # "failed"
    /\ pc = "done" =>
        /\ summary.present
        /\ \A t \in Connectors : Settled(task[t])

C1_Witness ==
    /\ pc = "done"
    /\ task["twitter"] = "err"
    /\ task["news"] = "err"
    /\ \A t \in Connectors \ {"twitter", "news"} : dataSources[t] = Payload(t)

AllSettled(T) == \A t \in T : Settled(task[t])
FoundersSettled == \A i \in 1..Len(ftask) : Settled(ftask[i])
\* the comparison search is skipped when no competitors are given
CompetitiveSettled ==
    IF Len(competitors) > 0 THEN Settled(task["competitiveAnalysis"])
    ELSE task["competitiveAnalysis"] = "idle"

\* C2: no activity of a phase is started before every activity of all earlier
\* phases has settled: web searches after the social phase, founder searches
\* after the web phase, then the comparison search, sentiment analysis,
\* persistence and the summary, each after everything before it.
C2_PhasesInSequence ==
    /\ (\E t \in WebTasks : task[t] # "idle") => AllSettled(SocialTasks)
    /\ (\E i \in 1..Len(ftask) : ftask[i] # "idle") => AllSettled(Connectors)
    /\ task["competitiveAnalysis"] # "idle" => AllSettled(Connectors) /\ FoundersSettled
    /\ task["sentimentAnalysis"] # "idle" =>
            AllSettled(Connectors) /\ FoundersSettled /\ CompetitiveSettled
    /\ task["save"] # "idle" =>
            /\ AllSettled(Connectors) /\ FoundersSettled /\ CompetitiveSettled
            /\ Settled(task["sentimentAnalysis"])
    /\ task["summary"] # "idle" =>
            /\ AllSettled(Connectors) /\ FoundersSettled /\ CompetitiveSettled
            /\ Settled(task["sentimentAnalysis"])
            /\ Settled(task["save"])

C2_Witness ==
    /\ task["summary"] = "running"
    /\ Len(founders) = 2
    /\ Len(competitors) > 0
    /\ task["instagram"] = "err"
    /\ task["linkedin"] = "err"

\* C3: in one run every result slot key is assigned at most once.
C3_SlotsWrittenOnce == \A k \in DOMAIN writes : writes[k] <= 1

\* C4: every run ends by returning a result that holds the summary, whichever
\* activities failed, and a failed sentiment analysis is recorded as an "Error:"
\* string in its slot.
C4_AlwaysReturnsReport ==
    /\ <>(pc = "done" /\ summary.present)
    /\ [](task["sentimentAnalysis"] = "err" => StartsWithError(sentimentAnalysis))
    /\ [](task["sentimentAnalysis"] = "err" => pc \in {"phase6", "phase7", "done"})

C4_Witness ==
    /\ pc = "done"
    /\ summary.present
    /\ ~summary.sentimentShown
    /\ StartsWithError(sentimentAnalysis)
    /\ \A t \in Connectors : task[t] = "err"

\* C5: a failure of the document store during the persistence step is logged
\* and nothing more: the activity returns, the workflow goes on to the summary
\* and returns the result it holds in memory.
C5_PersistenceFailureTolerated ==
    /\ storeLog # "thrown"
    /\ storeLog = "logged" =>
        /\ task["save"] = "ok"
        /\ pc \in {"phase7", "done"}
    /\ (pc = "done" /\ storeLog = "logged") =>
        /\ summary = generateSummary(dataSources, sentimentAnalysis)
        /\ \A t \in Connectors : dataSources[t].kind # "absent"

C5_Witness ==
    /\ pc = "done"
    /\ storeLog = "logged"
    /\ summary.present

\* C39: with deepAnalysis requested only a bounded subset is analysed again,
\* at most 5 items for texts handed in and at most 10 for stored posts, and
\* overwriting their entries leaves the number of per-item results and every
\* entry that was not selected as they were.
Selected(idx) == \E j \in 1..Len(analysis.keyPosts) : analysis.keyPosts[j] = idx
C39_DeepAnalysisBounded ==
    (analysis.st = "done" /\ analysis.deep) =>
        /\ Len(analysis.keyPosts) <= IF analysis.stored THEN 10 ELSE 5
        /\ Len(analysis.results) = Len(analysis.before)
        /\ \A k \in 1..Len(analysis.before) :
              ~Selected(k - 1) => analysis.results[k] = analysis.before[k]

\* C34: when a run in flight is cancelled, the activities being executed run
\* to their own completion, no activity that was not started before is started
\* afterwards, the run ends as cancelled and stays so, and every result slot
\* holds a whole value or none: the slot of an activity that was never started
\* none, the slot of every other connector one.
Whole(v) == v.kind \in {"payload", "Error:"}
C34_CancelledAtPhaseBoundary ==
    [][/\ (pc \in Suspended /\ pc' \notin Suspended \cup {"done", "failed"}) =>
              pc' = "cancelled"
       /\ pc = "cancelled" => pc' = "cancelled"
       /\ (\E t \in TaskIds : task'[t] \in {"cancelled", "finished"}) => pc' = "cancelled"
       /\ pc' = "cancelled" =>
              /\ \A t \in TaskIds :
                    /\ task[t] = "idle" => task'[t] = "idle"
                    /\ task[t] = "running" => task'[t] = "cancelled"
                    /\ task[t] = "cancelled" => task'[t] \in {"cancelled", "finished"}
              /\ \A i \in 1..Len(founders) : ftask[i] = "idle" => ftask'[i] = "idle"
              /\ \A k \in SourceKeys :
                    IF task'[k] = "idle" THEN dataSources'[k] = Absent
                    ELSE Whole(dataSources'[k])
              /\ IF task'["sentimentAnalysis"] = "idle" THEN sentimentAnalysis' = Absent
                 ELSE Whole(sentimentAnalysis')
              /\ \A n \in FounderNames : founderSlots'[n] = Absent \/ Whole(founderSlots'[n])
              /\ pc = "cancelled" =>
                    /\ dataSources' = dataSources
                    /\ founderSlots' = founderSlots
                    /\ sentimentAnalysis' = sentimentAnalysis
                    /\ summary' = summary]_vars

\* the run was cancelled while analyzeSentiment was in flight: its slot holds
\* the error text, saveToDatabase was never started, and the worker has come
\* to the end of the activity
C34_Witness ==
    /\ pc = "cancelled"
    /\ task["sentimentAnalysis"] = "finished"
    /\ sentimentAnalysis = ErrorString("sentimentAnalysis")
    /\ task["save"] = "idle"

-----------------------------------------------------------------------------
(* Properties of the RateLimiter *)

SettledOps == {i \in Ops : items[i].st \in {"resolved", "rejected"}}

\* C7: with maxRequestsPerSecond = 1, whenever a third operation is first
\* invoked, at least two seconds have passed since the first of the three was
\* first invoked.
C7_ThreeStartsTakeTwoSeconds ==
    (options.maxRequestsPerSecond = 1 /\ Len(sinceStart) = 3 /\ sinceStart[1] = 0)
        => sinceStart[3] >= 2000

\* C8: an operation is called at most maxRetries + 1 times; while it waits for
\* a retry it has retries left; and an item whose last allowed call threw a
\* throttling error is rejected with that error.
C8_ThrottledRetriesBounded ==
    \A i \in Ops :
        /\ items[i].invocations <= options.maxRetries + 1
        /\ items[i].retries <= options.maxRetries
        /\ items[i].st \in {"backoff", "queued"} => items[i].invocations <= options.maxRetries
        /\ (items[i].invocations = options.maxRetries + 1 /\ items[i].st # "inflight") =>
              items[i].st \in {"resolved", "rejected"}
        /\ (items[i].st = "rejected" /\ items[i].err \in ThrottlingErrors) =>
              items[i].invocations = options.maxRetries + 1

C8_Witness ==
    /\ options.maxRetries = 2
    /\ items[1].st = "rejected"
    /\ items[1].err = 1
    /\ items[1].invocations = 3
    /\ items[2].st = "rejected"
    /\ items[2].err = 2

\* C9: every operation handed to execute is in the end called and its promise
\* settled, however the budgets delay it: again and again no operation that was
\* handed in is left unsettled (a settled promise stays settled, so each handed-in
\* operation is settled from some moment on), and a settled operation was called.
C9_EveryOperationSettles ==
    /\ []<>(\A i \in Ops : items[i].st \in {"new", "resolved", "rejected"})
    /\ [](\A i \in SettledOps : items[i].invocations >= 1)

C9_Witness ==
    /\ SettledOps = Ops
    /\ items[3].st = "resolved"
    /\ items[3].retries = options.maxRetries
    /\ items[3].retries > 0
    /\ options.maxRequestsPerMinute < NumOps

\* C10: an error that is no throttling error rejects the promise at the call
\* that threw it (at the first call, if that call threw it), the item is never
\* queued or called again, and the loop stays active while items are queued.
C10_OtherErrorsRejectAtOnce ==
    /\ \A i \in Ops :
        /\ items[i].retriedOn # "other"
        /\ (items[i].st = "rejected" /\ items[i].err \notin ThrottlingErrors) =>
            /\ items[i].invocations = items[i].retries + 1
            /\ \A k \in 1..Len(queue) : queue[k] # i
            /\ backoffTimer[i] = -1
        /\ (items[i].st = "rejected" /\ items[i].retries = 0) => items[i].invocations = 1
    /\ Len(queue) > 0 => (processing /\ loop.at # "idle")

C10_Witness ==
    /\ items[1].st = "rejected"
    /\ items[1].err = 3
    /\ items[1].invocations = 1
    /\ items[2].st = "inflight"
    /\ items[2].invocations = 1
    /\ items[3].st = "queued"

\* C24: requestCounts never exceeds a budget: between two resets of a budget
\* no more attempts (retries included) start than the budget allows
C24_CountsWithinBudgets ==
    /\ requestCounts.perSecond <= options.maxRequestsPerSecond
    /\ requestCounts.perMinute <= options.maxRequestsPerMinute

\* the per-second budget is spent and the loop pauses with an item waiting
C24_Witness ==
    /\ requestCounts.perSecond = options.maxRequestsPerSecond
    /\ loop.at = "delay"
    /\ loopTimer = SecondPause
    /\ Len(queue) > 0

InFlight == {i \in Ops : items[i].st = "inflight"}

\* C25: at most one operation is in flight, it is the one the loop awaits,
\* and processing is set exactly while the one loop is active
C25_OneLoopOneInFlight ==
    /\ Cardinality(InFlight) <= 1
    /\ InFlight = (IF loop.at = "inflight" THEN {loop.item} ELSE {})
    /\ processing <=> loop.at # "idle"

\* an operation is in flight while a throttled one has been put back and waits
C25_Witness ==
    /\ loop.at = "inflight"
    /\ Len(queue) > 0
    /\ items[Head(queue)].retries > 0

Before(q, i, j) == \E k, l \in 1..Len(q) : k < l /\ q[k] = i /\ q[l] = j

\* C26: when the backoff of a throttled item ends the item is put at the
\* front of the queue (or, no loop being active, invoked at once); only the
\* head of the queue is ever dequeued and waiting items keep their order, so
\* the item is dequeued before every item that waited at that moment
C26_RequeuedAtFront ==
    [][/\ \A i \in Ops :
            (items[i].st = "backoff" /\ items'[i].st # "backoff") =>
                \/ queue' = <<i>> \o queue
                \/ queue' = queue /\ items'[i].st = "inflight"
       /\ \A j \in Ops :
            (items[j].st = "queued" /\ items'[j].st = "inflight") => j = Head(queue)
       /\ \A i, j \in Ops :
            (Before(queue, i, j) /\ Before(queue', j, i)) => FALSE]_vars

\* a throttled item has been put back ahead of an item that was waiting
C26_Witness ==
    /\ Len(queue) >= 2
    /\ items[Head(queue)].retries > 0
    /\ items[queue[2]].retries = 0

\* C37: the delay before the k-th retry of a throttled item, k = 1..maxRetries,
\* is retryDelay * backoffMultiplier^(k-1) ms, which is 2000, 4000 and 8000 ms
\* for bedrockRateLimiter; with backoffMultiplier > 1 each retry of an item
\* waits strictly longer than its previous retry.
Retried(i) == items'[i].retries = items[i].retries + 1
C37_BackoffDelays ==
    [][\A i \in Ops : Retried(i) =>
          LET k == items'[i].retries
          IN  /\ k \in 1..options.maxRetries
              /\ items'[i].st = "backoff"
              /\ backoffTimer'[i] = options.retryDelay * Pow(options.backoffMultiplier, k - 1)
              /\ options = bedrockRateLimiter => backoffTimer'[i] = <<2000, 4000, 8000>>[k]
              /\ (options.backoffMultiplier > 1 /\ k > 1) => backoffTimer'[i] > items[i].delay]_vars
\* an operation of bedrockRateLimiter waits out its third retry
C37_Witness ==
    \E i \in Ops : items[i].st = "backoff" /\ items[i].retries = 3 /\ backoffTimer[i] = 8000

\* C36: the two layers agree on what throttling is: every error the limiter
\* rejects a promise with and isRateLimitError classifies as throttling (by
\* 'rate limit' or 'too many requests' in any letter case in its message, or by
\* statusCode 429) makes the catch block of analyzeBatchWithClaude fall back to
\* Mistral when useMistralFallback is true.
C36_ThrottlingTriggersFallback ==
    \A i \in Ops :
        (items[i].st = "rejected" /\ isRateLimitError(ErrorSamples[items[i].err]))
            => FallsBackToMistral(ErrorSamples[items[i].err], TRUE)

\* C35: after clearQueue() no operation that was handed to execute before the
\* call is invoked: not one that waited in the queue, not one that waited out
\* a backoff delay, not the one in flight.
Invoked(i) ==
    /\ loop'.at = "inflight"
    /\ loop'.item = i
    /\ ~(loop.at = "inflight" /\ loop.item = i)
C35_ClearedNeverInvoked ==
    [][\A i \in Ops : items[i].old => ~Invoked(i)]_vars

-----------------------------------------------------------------------------
(* Properties of the ModelRotator *)

Known == DOMAIN models

\* getNextModel has just returned
Returned == lastCall.op = "getNextModel"

\* C11: from the third failure in a row of a model until it is marked available
\* again, getNextModel does not return it while another model has fewer than
\* three recentErrors.
C11_QuarantinedNotChosen ==
    (Returned /\ quarantined[lastCall.model]) =>
        ~ \E o \in Known \ {lastCall.model} :
              models[o].recentErrors < Halves(ErrorThreshold)

\* C12: getNextModel always returns a model of the list, and when no model
\* qualifies (each unavailable or inside its cooldown) the one it returns has
\* the least recentErrors of all.
C12_AlwaysReturnsAModel ==
    Returned =>
        /\ \E k \in 1..Len(modelList) : modelList[k] = lastCall.model
        /\ lastCall.flag <=> (\A m \in Known : ~Qualifies(m))
        /\ lastCall.flag =>
              \A m \in Known : models[lastCall.model].recentErrors <= models[m].recentErrors

C12_Witness ==
    /\ modelList = sentimentModelRotator
    /\ Returned
    /\ lastCall.flag
    /\ lastCall.model = "mistral"
    /\ ~models["claude"].isAvailable
    /\ models["mistral"].isAvailable
    /\ models["mistral"].sinceLastRequest <= Cooldown
    /\ models["mistral"].recentErrors > 0

\* C13: an unavailable model is in the end available again, unless another
\* failure is recorded for it, whatever recentErrors it has.
C13_NoPermanentLockout ==
    \A m \in AllModels :
        (m \in Known /\ ~models[m].isAvailable)
            ~> \/ m \in Known /\ models[m].isAvailable
               \/ lastCall.op = "failure" /\ lastCall.model = m

C13_Witness ==
    /\ modelList = <<"mistral">>
    /\ ~models["mistral"].isAvailable
    /\ models["mistral"].recentErrors = 1
    /\ tickSeen["mistral"]
    /\ failStreak["mistral"] = 0

\* C14: when the third failure in a row of a model has just been recorded, the
\* model is unavailable.
C14_ThreeFailuresQuarantine ==
    \A m \in Known :
        (lastCall.op = "failure" /\ lastCall.model = m /\ failStreak[m] = 3)
            => ~models[m].isAvailable

PositionOf(m) == CHOOSE k \in 1..Len(modelList) : modelList[k] = m
AfterLastReturned ==
    IF lastReturned = "none" THEN 1
    ELSE (PositionOf(lastReturned) % Len(modelList)) + 1

\* the first qualifying model in list order from place start on, wrapping round
FirstQualifyingFrom(start) ==
    LET at(k) == ((start - 1 + k) % Len(modelList)) + 1
        hits == {k \in 0..(Len(modelList) - 1) : Qualifies(modelList[at(k)])}
    IN  modelList[at(CHOOSE k \in hits : \A l \in hits : k <= l)]

\* C27: whenever some model is available and was last used more than a second
\* ago, getNextModel returns the first such model in list order from the place
\* after the model it returned last, and so never a model that is unavailable
\* or inside its cooldown.
C27_RoundRobinFromLastReturned ==
    [][(lastCall'.op = "getNextModel" /\ \E m \in Known : Qualifies(m)) =>
          /\ Qualifies(lastCall'.model)
          /\ lastCall'.model = FirstQualifyingFrom(AfterLastReturned)]_vars

\* a recordRequest(m, true) step: the request of m was just now, no failure
\* is counted in a row and no tick has fired since
SuccessRecorded(m) ==
    /\ lastCall' = NoCall
    /\ models'[m].sinceLastRequest = 0
    /\ failStreak'[m] = 0
    /\ ~tickSeen'[m]
    /\ <<models[m], failStreak[m], tickSeen[m]>> # <<models'[m], failStreak'[m], tickSeen'[m]>>

\* C28: recordRequest(m, true) takes half an error off recentErrors, never
\* going below 0, and when that leaves recentErrors at 0 the model is
\* available, without a decay tick.
C28_SuccessRestoresAvailability ==
    [][\A m \in Known :
          SuccessRecorded(m) =>
              /\ models'[m].recentErrors = Max(0, models[m].recentErrors - 1)
              /\ models'[m].recentErrors = 0 => models'[m].isAvailable]_vars

-----------------------------------------------------------------------------
(* Properties of the SimpleCache *)

\* C16: a get right after set(k, v, ttl) returns v, and a get made once ttl
\* seconds or more have passed since the set returns null.
C16_SetThenGet ==
    (got.called /\ sinceSet[got.key].ttlSeconds > 0) =>
        /\ sinceSet[got.key].elapsed = 0 =>
              got.hit /\ got.value = sinceSet[got.key].value
        /\ sinceSet[got.key].elapsed >= sinceSet[got.key].ttlSeconds * 1000 => ~got.hit

\* C38: eviction removes exactly the expired entries: get(k) on an entry
\* whose expiry has passed removes that entry and nothing else, get(k) on any
\* other entry removes nothing, and the sweep removes every entry whose expiry
\* has passed and leaves every other entry and its value as it was.
PastExpiry(k) == cache[k].present /\ cache[k].left < 0
Evicted(k) == IF PastExpiry(k) THEN ~cache'[k].present ELSE cache'[k] = cache[k]
C38_EvictsExactlyExpired ==
    [][/\ \A k \in PlainKeys :
            Get(k) => Evicted(k) /\ \A j \in PlainKeys \ {k} : cache'[j] = cache[j]
       /\ Cleanup => \A k \in PlainKeys : Evicted(k)]_vars
\* get(k) has just removed an entry set longer ago than its ttl, and the entry
\* of another key is still there
C38_Witness ==
    /\ got.called
    /\ ~got.hit
    /\ sinceSet[got.key].value # NeverSet.value
    /\ sinceSet[got.key].elapsed > TtlMs(sinceSet[got.key].ttlSeconds)
    /\ ~cache[got.key].present
    /\ \E j \in PlainKeys \ {got.key} : cache[j].present /\ cache[j].left >= 0

-----------------------------------------------------------------------------
(* Properties of the batch sentiment analysis *)

\* C17: whatever the provider calls come to, the results of a call of
\* analyzeBatchSmart that returned are an array with exactly texts.length
\* entries
C17_OneResultPerText ==
    (batchLog.returned /\ ~batchLog.threw) =>
        /\ batchLog.result.array
        /\ batchLog.result.entries = Len(batchLog.texts)

\* C18: for every list of texts, the empty list and lists of empty or very
\* long texts among them, getOptimalBatchSize returns an integer in [5, 10]
\* (the strict variant) and in [5, 25] (the primary variant)
C18_BatchSizeInClampRange ==
    sizeCall.called =>
        /\ sizeCall.strict.kind = "number"
        /\ sizeCall.strict.v \in ClampMin..StrictClampMax
        /\ sizeCall.primary.kind = "number"
        /\ sizeCall.primary.v \in ClampMin..PrimaryClampMax

\* C19: analyzeBatchSmart never throws: for every outcome of the provider
\* calls, and for both models failing ahead of them, the call that settled
\* returned a result
C19_NeverThrows ==
    batchLog.returned => ~batchLog.threw

\* the provider call of analyzeBatchWithClaude has failed and the call for two
\* texts has returned the placeholders
C19_Witness ==
    /\ batchLog.returned
    /\ Len(batchLog.texts) = 2
    /\ batchLog.invoked = 1
    /\ batchLog.result = Placeholder(batchLog.texts, FailureText("claude"))

\* C20: a call that repeats the list of the call before it, which a provider
\* answered less than the ttl ago, returns that cached result and invokes no
\* provider
C20_RepeatServedFromCache ==
    (batchLog.returned /\ batchLog.repeat) =>
        /\ batchLog.invoked = 0
        /\ batchLog.result = batchLog.previous

\* C22: when the provider call of the selected model fails, the other model
\* is invoked, once; placeholders are returned only when that call failed too
C22_AlternateTriedOnce ==
    (batchLog.returned /\ batchLog.invoked >= 1) =>
        /\ batchLog.failed >= 1 => batchLog.invoked = 2
        /\ batchLog.result.error # "none" => batchLog.failed = 2

\* C23: a call that invoked the selected provider records a success with the
\* rotator exactly when that provider call did not fail
C23_OutcomeRecorded ==
    (batchLog.returned /\ batchLog.invoked >= 1) =>
        (batchLog.recorded <=> batchLog.failed = 0)

\* C31: only a result parsed from a provider's output is written to the
\* sentiment cache, with a ttl of 600 seconds and as the one entry of the
\* batch it answers; placeholders are never cached, so a call that needs none
\* of its providers never returns placeholders out of the cache.
Written(k) ==
    /\ cache'[k].present
    /\ \/ ~cache[k].present
       \/ cache'[k].value # cache[k].value
       \/ cache'[k].left > cache[k].left
C31_OnlyParsedResultsCached ==
    [][/\ \A k \in BatchKeys : Written(k) =>
              /\ call.st = "awaiting"
              /\ k = CacheKey(call.model, call.texts)
              /\ cache'[k] = CacheItem(batchLog'.result, BatchTtl * 1000)
              /\ batchLog'.result.error = "none"
       /\ (call.st = "awaiting" /\ call'.st = "idle") =>
              Cardinality({k \in BatchKeys : Written(k)})
                  = (IF batchLog'.result.error = "none" THEN 1 ELSE 0)
       /\ \A k \in BatchKeys : cache'[k].present => cache'[k].value.error = "none"
       /\ (batchLog'.returned /\ batchLog'.invoked = 0
              /\ ~ThrowsBeforeCall(batchLog'.texts)) =>
              batchLog'.result.error = "none"]_vars

\* one call was answered by its provider and cached, the call after it failed
\* and returned placeholders, which left the cache as it was
C31_Witness ==
    /\ batchLog.returned
    /\ batchLog.calls = 2
    /\ batchLog.invoked = 1
    /\ batchLog.result.error # "none"
    /\ Cardinality({k \in BatchKeys : cache[k].present}) = 1
    /\ \A k \in BatchKeys : cache[k].present => cache[k].value = batchLog.previous

\* C32: every provider invocation the sentiment code makes (the batch paths
\* of Claude and Mistral, the single-item Claude path and its Mistral
\* fallback) is the operation of a bedrockRateLimiter.execute
C32_EverySendThroughLimiter ==
    \A send \in analysis.sends : send.limited

\* C21: in the aggregated output of analyzeSentiment the distribution count of
\* each category equals the number of per-item results of that category, and
\* the counts of the distribution sum to the number of per-item results; three
\* texts that well-formed provider output classifies positive, negative and
\* neutral give the distribution {positive: 1, negative: 1, neutral: 1, mixed: 0}
\* and a report.
Reported == analysis.st = "done" /\ analysis.report.kind = "report"
ResultsOf(c) == {k \in 1..Len(analysis.results) : analysis.results[k].sentiment = c}
C21_DistributionCountsResults ==
    LET d == analysis.report.distribution
    IN  /\ Reported =>
            /\ \A c \in Categories : d.counts[c] = Cardinality(ResultsOf(c))
            /\ d.notANumber = {}
            /\ d.counts["positive"] + d.counts["negative"] + d.counts["neutral"]
                   + d.counts["mixed"] = Len(analysis.results)
        /\ (analysis.st = "done" /\ analysis.n = 3 /\ analysis.shapes = <<"inOrder">>) =>
            /\ analysis.report.kind = "report"
            /\ d = [counts |-> [c \in Categories |-> IF c = "mixed" THEN 0 ELSE 1],
                    notANumber |-> {}]

\* C29: after the batch loop of analyzeSentiment the i-th per-item result is
\* the result for the i-th input text, across batch boundaries and whatever
\* the number and the index order of the items a provider response lists.
C29_ResultsInInputOrder ==
    analysis.st = "done" =>
        /\ Len(analysis.results) = analysis.n
        /\ \A t \in 1..analysis.n : analysis.results[t].text = t

\* C30: when the try block of a batch throws, every text of that batch is
\* analysed individually and the per-item results end up with exactly one
\* entry for each text of that batch; the batches after it are still processed.
EntriesOf(t) == {k \in 1..Len(analysis.results) : analysis.results[k].text = t}
BatchAt(off) == {t \in 1..analysis.n : off < t /\ t <= off + analysis.size.v}
C30_ThrownBatchAnalysedOnce ==
    analysis.st = "done" =>
        /\ \A off \in analysis.threwAt : \A t \in BatchAt(off) : Cardinality(EntriesOf(t)) = 1
        /\ analysis.threwAt # {} => Len(analysis.shapes) * analysis.size.v >= analysis.n

\* C40: the dominant category of the report is a category with the maximal
\* count, and of several categories with the maximal count it is the earliest
\* in the order positive, negative, neutral, mixed.
Earlier(c, d) ==
    \E j, k \in 1..4 : j < k /\ CategoryOrder[j] = c /\ CategoryOrder[k] = d
-----------------------------------------------------------------------------
(* Properties of startupMonitoringWorkflow *)

\* digits followed by one of s, m, h, d
WellFormed(str) ==
    /\ Len(str) >= 2
    /\ \A i \in 1..(Len(str) - 1) :
        str[i] \in {"0", "1", "2", "3", "4", "5", "6", "7", "8", "9"}
    /\ str[Len(str)] \in {"s", "m", "h", "d"}

\* C6: given an interval or a duration that is not digits followed by one of
\* s, m, h, d, the monitoring workflow ends with a configuration error and no
\* activity (connector, sentiment analysis, persistence, summary) is ever started.
C6_BadDurationRejectedFirst ==
    (~WellFormed(interval) \/ ~WellFormed(duration)) =>
        /\ pc \in {"start", "configError"}
        /\ runs = 0
        /\ \A t \in TaskIds : task[t] = "idle"
        /\ storeLog = "none"

C6_Witness ==
    /\ pc = "configError"
    /\ interval = <<"1", "s">>
    /\ duration = <<"4", "5", "x">>

\* C33: startupMonitoringWorkflow starts a run only while less than the
\* duration has passed since it began (it began at time 0, so endTime is the
\* duration), every run after the first starts from the sleep of one full
\* interval that follows the run before it, for an interval above 0 no more
\* than ceil(duration / interval) runs are started, the workflow returns when
\* it finds the duration used up, and it does come to that.
RunStarts == runs' > runs
C33_RunsWithinDuration ==
    /\ [][/\ RunStarts => now' < endTime'
          /\ (RunStarts /\ runs >= 1) =>
                /\ pc = "monSleep"
                /\ now' = Min(now + intervalMs, endTime)
          /\ (RunStarts /\ intervalMs' > 0) => (runs' - 1) * intervalMs' < endTime'
          /\ (pc \in {"start", "monSleep"} /\ pc' = "done") => now' >= endTime'
          /\ (pc = "monSleep" /\ pc' # "monSleep" /\ now' >= endTime) =>
                pc' = "done" /\ ~RunStarts]_vars
    /\ <>(pc \in {"done", "configError"})

\* a second run has started after the sleep of an interval
C33_Witness ==
    /\ runs = 2
    /\ pc = "phase1"
    /\ intervalMs > 0
    /\ now < endTime

====
